---- MODULE Spec2Model ----
(***************************************************************************)
(* A model of the divortio-proxio reverse proxy: the request orchestrator  *)
(* (URL resolver, request rewriter, response dispatcher, edge cache), the  *)
(* header rewriters as functions on strings, and the WebSocket tunnel.     *)
(*                                                                         *)
(* Strings are TLA+ strings; TLC evaluates Len, \o, SubSeq, Head and Tail  *)
(* on them, so the JavaScript string methods the code calls are modelled   *)
(* character by character.                                                 *)
(***************************************************************************)
EXTENDS Integers, Sequences, FiniteSets, TLC

(***************************************************************************)
(* JavaScript string methods, as the handlers use them.                    *)
(***************************************************************************)

StartsWith(s, p) == Len(s) >= Len(p) /\ SubSeq(s, 1, Len(p)) = p

EndsWith(s, p) == Len(s) >= Len(p) /\ SubSeq(s, Len(s) - Len(p) + 1, Len(s)) = p

\* The first position >= i where p occurs in s, or 0.
RECURSIVE IndexFrom(_, _, _)
IndexFrom(s, p, i) ==
    IF i + Len(p) - 1 > Len(s) THEN 0
    ELSE IF SubSeq(s, i, i + Len(p) - 1) = p THEN i
    ELSE IndexFrom(s, p, i + 1)

\* String.prototype.indexOf, 1-based; 0 when p does not occur.
IndexOf(s, p) == IndexFrom(s, p, 1)

\* String.prototype.includes
Includes(s, p) == IndexFrom(s, p, 1) # 0

\* s.slice(0, -n)
SliceDropLast(s, n) == IF n >= Len(s) THEN "" ELSE SubSeq(s, 1, Len(s) - n)

\* s.slice(n), n counted from 0
SliceFrom(s, n) == IF n >= Len(s) THEN "" ELSE SubSeq(s, n + 1, Len(s))

\* The lower-case form of each upper-case letter.
LowerOf ==
    [c \in {"A", "B", "C", "D", "E", "F", "G", "H", "I", "J", "K", "L", "M",
            "N", "O", "P", "Q", "R", "S", "T", "U", "V", "W", "X", "Y", "Z"} |->
        CASE c = "A" -> "a" [] c = "B" -> "b" [] c = "C" -> "c" [] c = "D" -> "d"
          [] c = "E" -> "e" [] c = "F" -> "f" [] c = "G" -> "g" [] c = "H" -> "h"
          [] c = "I" -> "i" [] c = "J" -> "j" [] c = "K" -> "k" [] c = "L" -> "l"
          [] c = "M" -> "m" [] c = "N" -> "n" [] c = "O" -> "o" [] c = "P" -> "p"
          [] c = "Q" -> "q" [] c = "R" -> "r" [] c = "S" -> "s" [] c = "T" -> "t"
          [] c = "U" -> "u" [] c = "V" -> "v" [] c = "W" -> "w" [] c = "X" -> "x"
          [] c = "Y" -> "y" [] OTHER -> "z"]

LowerChar(c) == IF c \in DOMAIN LowerOf THEN LowerOf[c] ELSE c

RECURSIVE ToLowerCase(_)
ToLowerCase(s) == IF s = "" THEN "" ELSE LowerChar(Head(s)) \o ToLowerCase(Tail(s))

RECURSIVE TrimStart(_)
TrimStart(s) == IF s # "" /\ Head(s) = " " THEN TrimStart(Tail(s)) ELSE s

RECURSIVE TrimEnd(_)
TrimEnd(s) ==
    IF s # "" /\ SubSeq(s, Len(s), Len(s)) = " "
    THEN TrimEnd(SubSeq(s, 1, Len(s) - 1))
    ELSE s

Trim(s) == TrimEnd(TrimStart(s))

\* s.split(sep) for a one-character separator: a sequence of strings.
RECURSIVE Split(_, _)
Split(s, sep) ==
    IF ~Includes(s, sep)
    THEN <<s>>
    ELSE <<SubSeq(s, 1, IndexOf(s, sep) - 1)>> \o Split(SliceFrom(s, IndexOf(s, sep)), sep)

\* parts.join(sep)
RECURSIVE Join(_, _)
Join(parts, sep) ==
    IF Len(parts) = 0 THEN ""
    ELSE IF Len(parts) = 1 THEN parts[1]
    ELSE parts[1] \o sep \o Join(Tail(parts), sep)

\* Array.prototype.map on sequences (filter is SelectSeq)
MapSeq(seq, F(_)) == [i \in 1..Len(seq) |-> F(seq[i])]

\* `const name = value; body`: the value is computed once and named in the body.
Bind(value, Body(_)) == CHOOSE result \in {Body(v) : v \in {value}} : TRUE

(***************************************************************************)
(* Configuration (createConfig): loaded once, read-only afterwards.        *)
(***************************************************************************)

\* env.ROOT_DOMAIN of the end-to-end scenarios
RootDomain == "p.example"

\* `${config.cache.ttl}`, the default of CACHE_TTL
CacheTtlText == "3600"

\* config.cache.cacheableTypes, the default list
CacheableTypes ==
    <<"image/", "font/", "audio/", "video/", "text/css", "text/plain",
      "application/javascript", "application/x-javascript", "application/pdf",
      "image/x-icon", "image/vnd.microsoft.icon">>

(***************************************************************************)
(* new URL(input, base): the WHATWG parser on the URL shapes the model     *)
(* feeds it: scheme://host/path?query, //host/path, /path?query, and a     *)
(* relative path. A URL is [ok, protocol, hostname, pathname, search];     *)
(* ok = FALSE stands for the TypeError the constructor throws.             *)
(***************************************************************************)

NoBase == [ok |-> FALSE, protocol |-> "", hostname |-> "", pathname |-> "", search |-> ""]

BadURL == NoBase

\* The first position of "/" or "?" in s, or Len(s) + 1.
HostEnd(s) ==
    LET a == IndexOf(s, "/")
        b == IndexOf(s, "?")
    IN  IF a = 0 /\ b = 0 THEN Len(s) + 1
        ELSE IF a = 0 THEN b
        ELSE IF b = 0 THEN a
        ELSE IF a < b THEN a ELSE b

\* pathname and search of a string that starts at the path
PathOf(s) ==
    LET q == IndexOf(s, "?")
        p == IF q = 0 THEN s ELSE SubSeq(s, 1, q - 1)
    IN  IF p = "" THEN "/" ELSE p

SearchOf(s) ==
    LET q == IndexOf(s, "?")
    IN  IF q = 0 \/ q = Len(s) THEN "" ELSE SubSeq(s, q, Len(s))

ValidHost(h) == h # "" /\ ~Includes(h, " ") /\ ~Includes(h, "<") /\ ~Includes(h, ">")

\* The URL of an authority h followed by a path-and-query tail.
HostAndPath(protocol, h, tail) ==
    IF ValidHost(h)
    THEN [ok |-> TRUE, protocol |-> protocol, hostname |-> h,
          pathname |-> PathOf(tail), search |-> SearchOf(tail)]
    ELSE BadURL

\* The part of a URL after "scheme://": the host ends at position e.
Authority(protocol, rest) ==
    Bind(HostEnd(rest), LAMBDA e :
        HostAndPath(protocol, ToLowerCase(SubSeq(rest, 1, e - 1)),
                    IF e > Len(rest) THEN "" ELSE SubSeq(rest, e, Len(rest))))

\* The directory of a path: up to and including its last "/".
RECURSIVE DirOf(_)
DirOf(p) ==
    IF p = "" THEN "/"
    ELSE IF SubSeq(p, Len(p), Len(p)) = "/" THEN p
    ELSE DirOf(SubSeq(p, 1, Len(p) - 1))

\* The parser on the trimmed input s, l its lower-case form.
ParseTrimmed(s, l, base) ==
    IF StartsWith(l, "https://") THEN Authority("https:", SliceFrom(s, 8))
    ELSE IF StartsWith(l, "http://") THEN Authority("http:", SliceFrom(s, 7))
    ELSE IF StartsWith(l, "wss://") THEN Authority("wss:", SliceFrom(s, 6))
    ELSE IF StartsWith(l, "ws://") THEN Authority("ws:", SliceFrom(s, 5))
    ELSE IF ~base.ok THEN BadURL
    ELSE IF StartsWith(s, "//") THEN Authority(base.protocol, SliceFrom(s, 2))
    ELSE IF StartsWith(s, "/")
         THEN [base EXCEPT !.pathname = PathOf(s), !.search = SearchOf(s)]
    ELSE IF s = "" THEN base
    ELSE IF StartsWith(s, "?") THEN [base EXCEPT !.search = SearchOf(s)]
    ELSE [base EXCEPT !.pathname = PathOf(DirOf(base.pathname) \o s),
                      !.search = SearchOf(s)]

ParseURL(input, base) ==
    Bind(Trim(input), LAMBDA s : ParseTrimmed(s, ToLowerCase(s), base))

\* URL.href
Href(u) == u.protocol \o "//" \o u.hostname \o u.pathname \o u.search

(***************************************************************************)
(* URL Resolver                                                            *)
(***************************************************************************)

\* getTargetURL(request, config): the target URL, or BadURL for null.
getTargetURL(requestUrl, rootDomain) ==
    Bind(ParseURL(requestUrl, NoBase), LAMBDA url :
        LET hostname == url.hostname
            subdomain == SliceDropLast(hostname, Len(rootDomain) + 1)
        IN  IF ~EndsWith(hostname, rootDomain) THEN BadURL
            ELSE IF subdomain = "" THEN BadURL
            ELSE ParseURL(url.pathname \o url.search,
                          ParseURL("https://" \o subdomain, NoBase)))

(***************************************************************************)
(* The proxy-URL mapping at each rewrite site                              *)
(***************************************************************************)

\* `https://${u.hostname}.${rootDomain}${u.pathname}${u.search}`
ProxyUrlOf(u, rootDomain) ==
    "https://" \o u.hostname \o "." \o rootDomain \o u.pathname \o u.search

\* rewriteLocationHeader: the value headers.set('Location', ...) leaves.
rewriteLocationValue(value, targetURL, rootDomain) ==
    Bind(ParseURL(value, targetURL), LAMBDA loc :
        IF loc.ok THEN ProxyUrlOf(loc, rootDomain) ELSE value)

\* rewriteLinkHeader, the callback that rewrites the <url> of one entry.
rewriteLinkTarget(url, targetURL, rootDomain) ==
    Bind(ParseURL(url, targetURL), LAMBDA absURL :
        IF ~absURL.ok THEN url
        ELSE IF EndsWith(absURL.hostname, "." \o rootDomain) THEN url
        ELSE ProxyUrlOf(absURL, rootDomain))

\* AttributeRewriter.element: the attribute value after the handler.
rewriteAttributeValue(val, baseURL, rootDomain) ==
    IF val = "" \/ StartsWith(val, "data:") \/ StartsWith(val, "javascript:") THEN val
    ELSE Bind(ParseURL(val, baseURL), LAMBDA absURL :
            IF ~absURL.ok THEN val
            ELSE IF EndsWith(absURL.hostname, "." \o rootDomain) THEN val
            ELSE ProxyUrlOf(absURL, rootDomain))

\* rewriteUrlsInJson of rewriters/parsers.mjs, one string value.
rewriteJsonStringUnchecked(val, baseURL, rootDomain) ==
    IF StartsWith(val, "http:") \/ StartsWith(val, "https://")
    THEN Bind(ParseURL(val, baseURL), LAMBDA absURL :
            IF absURL.ok THEN ProxyUrlOf(absURL, rootDomain) ELSE val)
    ELSE val

\* rewriteUrlsInJson of rewriters/mimeType/json.mjs, one string value.
rewriteJsonString(val, baseURL, rootDomain) ==
    IF StartsWith(val, "http:") \/ StartsWith(val, "https://")
    THEN Bind(ParseURL(val, baseURL), LAMBDA absURL :
            IF absURL.ok /\ ~EndsWith(absURL.hostname, "." \o rootDomain)
            THEN ProxyUrlOf(absURL, rootDomain)
            ELSE val)
    ELSE val

\* String.prototype.lastIndexOf for a one-character c, 1-based; 0 for -1.
RECURSIVE LastIndexOf(_, _)
LastIndexOf(s, c) ==
    IF s = "" THEN 0
    ELSE IF SubSeq(s, Len(s), Len(s)) = c THEN Len(s)
    ELSE LastIndexOf(SubSeq(s, 1, Len(s) - 1), c)

\* s.replace(p, r) for a string p: the first occurrence is replaced.
ReplaceFirst(s, p, r) ==
    IF ~Includes(s, p) THEN s
    ELSE SubSeq(s, 1, IndexOf(s, p) - 1) \o r \o SliceFrom(s, IndexOf(s, p) + Len(p) - 1)

\* SrcsetRewriter.element, the callback of map: what one part of
\* srcset.split(',') becomes.
rewriteSrcsetPart(part, baseURL, rootDomain) ==
    Bind(Trim(part), LAMBDA trimmed :
    Bind(LastIndexOf(trimmed, " "), LAMBDA spaceIndex :
    Bind(IF spaceIndex = 0 THEN trimmed ELSE SubSeq(trimmed, 1, spaceIndex - 1), LAMBDA url :
    Bind(IF spaceIndex = 0 THEN "" ELSE SliceFrom(trimmed, spaceIndex - 1), LAMBDA desc :
    Bind(ParseURL(url, baseURL), LAMBDA absURL :
        IF ~absURL.ok THEN part
        ELSE IF EndsWith(absURL.hostname, "." \o rootDomain) THEN part
        ELSE ProxyUrlOf(absURL, rootDomain) \o desc)))))

\* SrcsetRewriter.element: the srcset attribute after the handler.
rewriteSrcset(srcset, baseURL, rootDomain) ==
    IF srcset = "" THEN srcset
    ELSE Join([i \in 1..Len(Split(srcset, ",")) |->
                  rewriteSrcsetPart(Split(srcset, ",")[i], baseURL, rootDomain)], ", ")

\* [^'"]+ at the start of s: the characters before the first quote.
RECURSIVE UnquotedPrefix(_)
UnquotedPrefix(s) ==
    IF s = "" \/ Head(s) \in {"'", "\""} THEN ""
    ELSE Head(s) \o UnquotedPrefix(Tail(s))

\* match[1] of content.match(/url\s*=\s*['"]?([^'"]+)['"]?/i) when the match
\* starts at position i of content; "" when there is none from i on.
RECURSIVE RefreshUrlFrom(_, _)
RefreshUrlFrom(content, i) ==
    Bind(IndexFrom(ToLowerCase(content), "url", i), LAMBDA at :
        IF at = 0 THEN ""
        ELSE Bind(TrimStart(SliceFrom(content, at + 2)), LAMBDA afterName :
                 IF afterName = "" \/ Head(afterName) # "="
                 THEN RefreshUrlFrom(content, at + 1)
                 ELSE Bind(TrimStart(Tail(afterName)), LAMBDA afterEquals :
                          IF afterEquals # "" /\ Head(afterEquals) \in {"'", "\""}
                               /\ UnquotedPrefix(Tail(afterEquals)) # ""
                          THEN UnquotedPrefix(Tail(afterEquals))
                          ELSE IF UnquotedPrefix(afterEquals) # ""
                          THEN UnquotedPrefix(afterEquals)
                          ELSE RefreshUrlFrom(content, at + 1))))

\* MetaUrlRewriter.rewriteContent: the content attribute it leaves.
rewriteContent(fullContent, urlPart, baseURL, rootDomain) ==
    Bind(ParseURL(urlPart, baseURL), LAMBDA absURL :
        IF absURL.ok /\ ~EndsWith(absURL.hostname, "." \o rootDomain)
        THEN ReplaceFirst(fullContent, urlPart, ProxyUrlOf(absURL, rootDomain))
        ELSE fullContent)

\* MetaUrlRewriter.element: the content attribute after the handler, for a
\* meta element with that http-equiv ("" for none).
rewriteMetaContent(httpEquiv, content, baseURL, rootDomain) ==
    IF content = "" THEN content
    ELSE IF ToLowerCase(httpEquiv) = "refresh"
         THEN IF RefreshUrlFrom(content, 1) # ""
              THEN rewriteContent(content, RefreshUrlFrom(content, 1), baseURL, rootDomain)
              ELSE content
    ELSE IF StartsWith(content, "http") \/ StartsWith(content, "/")
         THEN rewriteContent(content, content, baseURL, rootDomain)
    ELSE content

(***************************************************************************)
(* Set-Cookie rewriter                                                     *)
(***************************************************************************)

\* The loop body of rewriteSetCookieHeader for parts[i], i >= 1: what it
\* pushes on newParts.
CookiePart(rawPart, rootDomain) ==
    LET part == Trim(rawPart)
        lowerPart == ToLowerCase(part)
        originalDomain == Trim(Split(part, "=")[2])
        cleanOriginDomain ==
            IF StartsWith(originalDomain, ".") THEN SliceFrom(originalDomain, 1)
            ELSE originalDomain
    IN  IF StartsWith(lowerPart, "secure") \/ StartsWith(lowerPart, "samesite") THEN <<>>
        ELSE IF StartsWith(lowerPart, "domain=")
             THEN <<"Domain=" \o cleanOriginDomain \o "." \o rootDomain>>
        ELSE <<part>>

RECURSIVE CookieParts(_, _)
CookieParts(parts, rootDomain) ==
    IF Len(parts) = 0 THEN <<>>
    ELSE CookiePart(Head(parts), rootDomain) \o CookieParts(Tail(parts), rootDomain)

rewriteSetCookieHeader(headerValue, rootDomain) ==
    LET parts == Split(headerValue, ";")
        newParts == <<Trim(parts[1])>> \o CookieParts(Tail(parts), rootDomain)
    IN  Join(newParts \o <<"Secure", "SameSite=Lax">>, "; ")

(***************************************************************************)
(* Headers objects: a function from the lower-cased header name to its     *)
(* value. The value of "set-cookie" is the sequence headers.getAll yields. *)
(***************************************************************************)

NoHeaders == <<>>

HHas(h, n) == n \in DOMAIN h

HGetOr(h, n, default) == IF n \in DOMAIN h THEN h[n] ELSE default

HSet(h, n, v) == [k \in (DOMAIN h) \cup {n} |-> IF k = n THEN v ELSE h[k]]

HDelete(h, n) == [k \in (DOMAIN h) \ {n} |-> h[k]]

HDeleteAll(h, names) == [k \in (DOMAIN h) \ names |-> h[k]]

\* headers.append(n, v) for a header joined with ", "
HAppend(h, n, v) == IF n \in DOMAIN h THEN HSet(h, n, h[n] \o ", " \o v) ELSE HSet(h, n, v)

\* sanitizeHeaders(headers): the response headers it deletes
SanitizedResponseHeaders ==
    {"content-encoding", "content-length", "transfer-encoding", "connection", "keep-alive",
     "referrer-policy", "content-security-policy-report-only", "x-frame-options",
     "cross-origin-opener-policy", "cross-origin-embedder-policy", "permissions-policy",
     "report-to", "nel", "alt-svc", "refresh", "sourcemap", "x-sourcemap",
     "x-dns-prefetch-control", "clear-site-data", "accept-ch"}

sanitizeHeaders(h) == HDeleteAll(h, SanitizedResponseHeaders)

(***************************************************************************)
(* Request rewriter                                                        *)
(***************************************************************************)

\* The request header names of the model, in the order Headers iterates
\* them (sorted by name).
HeaderOrder ==
    <<"accept", "authorization", "cf-connecting-ip", "cf-ipcountry", "cf-ray", "cf-worker",
      "cookie", "origin", "referer",
      "upgrade", "via", "x-cf-trace", "x-forwarded-for", "x-forwarded-host",
      "x-forwarded-proto", "x-real-ip">>

InHeaders(h, n) == n \in DOMAIN h

\* [...headers.keys()]
SortedKeys(h) == LET Present(n) == InHeaders(h, n) IN SelectSeq(HeaderOrder, Present)

removeList ==
    {"x-forwarded-for", "x-forwarded-proto", "x-real-ip", "via",
     "cf-connecting-ip", "cf-ipcountry", "cf-ray", "cf-visitor",
     "cf-access-jwt-assertion", "cf-access-authenticated-user-email", "cf-access-token"}

\* The test of the loop of sanitizeRequestHeaders
IsRemoved(key) == key \in removeList \/ StartsWith(key, "x-cf-")

\* The loop `for (const key of headers.keys())` deleting from the object it
\* iterates, when the iterator reads the live sorted list by position: the
\* name that moves into a deleted name's place is not visited.
RECURSIVE SanitizeLive(_, _)
SanitizeLive(h, i) ==
    LET keys == SortedKeys(h)
    IN  IF i > Len(keys) THEN h
        ELSE IF IsRemoved(keys[i]) THEN SanitizeLive(HDelete(h, keys[i]), i + 1)
        ELSE SanitizeLive(h, i + 1)

\* The same loop when the iterator walks a copy of the names taken at keys().
SanitizeSnapshot(h) == HDeleteAll(h, {k \in DOMAIN h : IsRemoved(k)})

\* sanitizeRequestHeaders(headers). Deleting while iterating: the result
\* depends on the runtime's Headers iterator, `live` says which one runs.
sanitizeRequestHeaders(h, live) == IF live THEN SanitizeLive(h, 1) ELSE SanitizeSnapshot(h)

\* fixIdentityHeaders, the inner fix(name)
\* fix(name) once val parsed: u is new URL(val), realTarget is
\* getTargetURL({url: val}, config).
fixParsed(h, name, u, realTarget, rootDomain) ==
    IF ~u.ok THEN HDelete(h, name)
    ELSE IF EndsWith(u.hostname, rootDomain) /\ realTarget.ok
         THEN HSet(h, name, Href(realTarget))
    ELSE h

fixIdentity(h, name, rootDomain) ==
    IF HGetOr(h, name, "") = "" THEN h
    ELSE fixParsed(h, name, ParseURL(h[name], NoBase), getTargetURL(h[name], rootDomain),
                   rootDomain)

fixIdentityHeaders(h, rootDomain) ==
    Bind(fixIdentity(h, "referer", rootDomain), LAMBDA fixed :
        fixIdentity(fixed, "origin", rootDomain))

\* A part of the Cookie header that sanitizeRequestCookie keeps: trimmed, it
\* is name=value. (COOKIE_ROOT_PASSTHROUGH and COOKIE_PROXY_PASSTHROUGH are
\* not set: no name is filtered.)
IsCookiePair(part) == Trim(part) # "" /\ Includes(Trim(part), "=")

\* sanitizeRequestCookie(headers, config, targetURL)
sanitizeRequestCookie(h) ==
    IF HGetOr(h, "cookie", "") = "" THEN h
    ELSE Bind(SelectSeq(Split(h["cookie"], ";"), IsCookiePair), LAMBDA safeParts :
            IF safeParts # <<>>
            THEN HSet(h, "cookie", Join(MapSeq(safeParts, Trim), "; "))
            ELSE HDelete(h, "cookie"))

\* rewriteRequest(originalRequest, targetURL, config): the upstream request.
rewriteRequest(originalRequest, targetURL, rootDomain, live) ==
    [kind |-> "http",
     url |-> Href(targetURL),
     method |-> originalRequest.method,
     headers |-> Bind(sanitizeRequestHeaders(originalRequest.headers, live), LAMBDA headers :
                    sanitizeRequestCookie(
                        fixIdentityHeaders(HSet(headers, "host", targetURL.hostname),
                                           rootDomain)))]

(***************************************************************************)
(* Response dispatcher                                                     *)
(***************************************************************************)

\* The status test of a dispatcher that passes through redirects only.
IsRedirectStatus(status) == status >= 300 /\ status < 400

IsShortcutStatus(status) == status = 304 \/ status = 204 \/ (status >= 300 /\ status < 400)

\* rewriteLocationHeader(headers, targetURL, rootDomain)
rewriteLocationHeader(h, targetURL, rootDomain) ==
    IF HHas(h, "location")
    THEN HSet(h, "location", rewriteLocationValue(h["location"], targetURL, rootDomain))
    ELSE h

\* The Set-Cookie block of rewriteResponse: getAll, delete, append each rewritten.
rewriteSetCookies(h, rootDomain) ==
    IF HHas(h, "set-cookie")
    THEN LET Rw(c) == rewriteSetCookieHeader(c, rootDomain)
         IN  HSet(h, "set-cookie", MapSeq(h["set-cookie"], Rw))
    ELSE h

\* The dispatch with the XML test moved to the front.
ContentHandlerXmlFirst(contentType) ==
    IF Includes(contentType, "xml") THEN "xml"
    ELSE IF Includes(contentType, "text/html") THEN "html"
    ELSE IF Includes(contentType, "javascript") \/ Includes(contentType, "application/x-javascript")
         THEN "javascript"
    ELSE IF Includes(contentType, "text/css") THEN "css"
    ELSE IF Includes(contentType, "application/json") \/ Includes(contentType, "application/manifest+json")
         THEN "json"
    ELSE IF Includes(contentType, "application/pdf") THEN "pdf"
    ELSE "passthrough"

\* The content handler rewriteResponse delegates to, by Content-Type.
ContentHandler(contentType) ==
    IF Includes(contentType, "text/html") THEN "html"
    ELSE IF Includes(contentType, "javascript") \/ Includes(contentType, "application/x-javascript")
         THEN "javascript"
    ELSE IF Includes(contentType, "text/css") THEN "css"
    ELSE IF Includes(contentType, "application/json") \/ Includes(contentType, "application/manifest+json")
         THEN "json"
    ELSE IF Includes(contentType, "xml") THEN "xml"
    ELSE IF Includes(contentType, "application/pdf") THEN "pdf"
    ELSE "passthrough"

\* What a handler returns for a body: the body rewritten by that handler.
HandledBody(handler, body) ==
    IF handler \in {"pdf", "passthrough"} THEN body ELSE handler \o "(" \o body \o ")"

\* The headers a handler returns.
HandledHeaders(handler, h) ==
    IF handler \in {"javascript", "css"} THEN HSet(h, "content-length", "recomputed")
    ELSE IF handler = "pdf" THEN HSet(h, "content-disposition", "attachment")
    ELSE h

\* rewriteResponse(originResponse, targetURL, rootDomain, config, null)
rewriteResponse(originResponse, targetURL, rootDomain) ==
    IF IsShortcutStatus(originResponse.status)
    THEN [status |-> originResponse.status,
          headers |-> rewriteLocationHeader(sanitizeHeaders(originResponse.headers),
                                            targetURL, rootDomain),
          body |-> originResponse.body]
    ELSE Bind(rewriteLocationHeader(
                  rewriteSetCookies(sanitizeHeaders(originResponse.headers), rootDomain),
                  targetURL, rootDomain),
              LAMBDA headers :
                  LET handler == ContentHandler(HGetOr(headers, "content-type", ""))
                  IN  [status |-> originResponse.status,
                       headers |-> HandledHeaders(handler, headers),
                       body |-> HandledBody(handler, originResponse.body)])

(***************************************************************************)
(* Edge cache (CFCache)                                                    *)
(***************************************************************************)

\* CFCache.getKey(request): a GET request for request.url
getKey(req) == req.url

\* /private|no-store|no-cache/i.test(cc)
ForbidsCaching(cc) ==
    LET l == ToLowerCase(cc)
    IN  Includes(l, "private") \/ Includes(l, "no-store") \/ Includes(l, "no-cache")

\* isSafeToCache without its status test.
isSafeToCacheAnyStatus(resp) ==
    /\ \E i \in 1..Len(CacheableTypes) :
          Includes(HGetOr(resp.headers, "content-type", ""), CacheableTypes[i])
    /\ ~ForbidsCaching(HGetOr(resp.headers, "cache-control", ""))

\* CFCache.isSafeToCache(response, config)
isSafeToCache(resp) ==
    /\ resp.status = 200
    /\ \E i \in 1..Len(CacheableTypes) :
          Includes(HGetOr(resp.headers, "content-type", ""), CacheableTypes[i])
    /\ ~ForbidsCaching(HGetOr(resp.headers, "cache-control", ""))

\* The response handed to cache.put without headers.delete('Set-Cookie').
CacheableResponseKeepingCookies(resp) ==
    [status |-> resp.status,
     headers |-> HAppend(
                    HSet(HSet(resp.headers,
                              "cloudflare-cdn-cache-control", "max-age=" \o CacheTtlText),
                         "cache-control", "public, max-age=" \o CacheTtlText),
                    "vary", "Accept-Encoding"),
     body |-> resp.body]

\* CFCache.save, the response handed to cache.put
CacheableResponse(resp) ==
    [status |-> resp.status,
     headers |-> HAppend(
                    HSet(HSet(HDelete(resp.headers, "set-cookie"),
                              "cloudflare-cdn-cache-control", "max-age=" \o CacheTtlText),
                         "cache-control", "public, max-age=" \o CacheTtlText),
                    "vary", "Accept-Encoding"),
     body |-> resp.body]

\* CFCache.save(request, response, config): the cache.put calls it makes.
save(req, resp) ==
    IF isSafeToCache(resp)
    THEN {[key |-> getKey(req), response |-> CacheableResponse(resp)]}
    ELSE {}

\* CFCache.get(request), given the entry cache.match found
CacheHit(entry) == [entry EXCEPT !.headers = HSet(entry.headers, "x-proxy-cache", "HIT")]

(***************************************************************************)
(* Asset generator, landing redirect, error boundary                       *)
(***************************************************************************)

NoResponse == [status |-> 0, headers |-> NoHeaders, body |-> ""]

\* The paths env.ASSETS serves (the public directory of the deployment).
PublicAssets == {"/favicon.ico"}

\* url.searchParams.get('target'), for a query of the shape ?target=...
TargetParam(search) == IF StartsWith(search, "?target=") THEN SliceFrom(search, 8) ELSE ""

\* handleAsset(request, env, config): the response, or NoResponse for null.
handleAsset(req) ==
    Bind(ParseURL(req.url, NoBase), LAMBDA url :
        IF url.pathname = "/__divortio_sw.js"
        THEN [status |-> 200,
              headers |-> [k \in {"content-type", "cache-control", "service-worker-allowed"} |->
                             CASE k = "content-type" -> "application/javascript"
                               [] k = "cache-control" -> "public, max-age=43200"
                               [] OTHER -> "/"],
              body |-> "service-worker"]
        ELSE IF url.pathname = "/__divortio_sw_injector.js"
        THEN IF TargetParam(url.search) = ""
             THEN [status |-> 400, headers |-> NoHeaders, body |-> "// Missing target"]
             ELSE [status |-> 200,
                   headers |-> [k \in {"content-type", "service-worker-allowed"} |->
                                  IF k = "content-type" THEN "application/javascript" ELSE "/"],
                   body |-> "importScripts(" \o TargetParam(url.search) \o ")"]
        ELSE IF url.pathname = "/__divortio_interceptor.js"
        THEN [status |-> 200,
              headers |-> [k \in {"content-type", "cache-control"} |->
                             IF k = "content-type" THEN "application/javascript"
                             ELSE "public, max-age=43200"],
              body |-> "interceptor"]
        ELSE IF url.pathname \in PublicAssets
        THEN [status |-> 200,
              headers |-> [k \in {"content-type", "x-robots-tag"} |->
                             IF k = "content-type" THEN "image/x-icon" ELSE "noindex, nofollow"],
              body |-> "asset"]
        ELSE NoResponse)

\* decodeURIComponent on the escapes the model uses; ok = FALSE is its URIError.
RECURSIVE DecodeURIComponent(_)
DecodeURIComponent(s) ==
    IF s = "" THEN [ok |-> TRUE, value |-> ""]
    ELSE IF Head(s) # "%"
         THEN LET rest == DecodeURIComponent(Tail(s))
              IN  [ok |-> rest.ok, value |-> Head(s) \o rest.value]
    ELSE IF StartsWith(s, "%2F")
         THEN LET rest == DecodeURIComponent(SliceFrom(s, 3))
              IN  [ok |-> rest.ok, value |-> "/" \o rest.value]
    ELSE [ok |-> FALSE, value |-> ""]

\* handleRootRedirect once the query is decoded: target is new URL(input).
redirectTo(decoded, target, rootDomain) ==
    IF ~decoded.ok THEN [threw |-> TRUE, response |-> NoResponse]
    ELSE IF ~target.ok THEN [threw |-> FALSE, response |-> NoResponse]
    ELSE [threw |-> FALSE,
          response |-> [status |-> 302,
                        headers |-> [k \in {"location"} |-> ProxyUrlOf(target, rootDomain)],
                        body |-> ""]]

\* The string handed to new URL: "url=" stripped, "https://" put in front
\* of an input without a scheme.
redirectInput(value) ==
    Bind(IF StartsWith(value, "url=") THEN SliceFrom(value, 4) ELSE value, LAMBDA stripped :
        IF ~StartsWith(stripped, "http://") /\ ~StartsWith(stripped, "https://")
        THEN "https://" \o stripped ELSE stripped)

\* handleRootRedirect(request, config): [threw, response]; NoResponse for null.
handleRootRedirect(req, rootDomain) ==
    Bind(ParseURL(req.url, NoBase), LAMBDA url :
        IF url.hostname # rootDomain \/ SliceFrom(url.search, 1) = ""
        THEN [threw |-> FALSE, response |-> NoResponse]
        ELSE Bind(DecodeURIComponent(SliceFrom(url.search, 1)), LAMBDA decoded :
                redirectTo(decoded, ParseURL(redirectInput(decoded.value), NoBase),
                           rootDomain)))

\* new Date().toISOString()
Timestamp == "2026-01-01T00:00:00.000Z"

\* JSON.stringify({error, message, timestamp})
ErrorJson(error, message, timestamp) ==
    "{\"error\":\"" \o error \o "\",\"message\":\"" \o message
        \o "\",\"timestamp\":\"" \o timestamp \o "\"}"

\* The text ErrorMiddleware 2.0.0 answers with, whatever was thrown.
GenericMessage == "An internal error occurred while processing the request."

\* ErrorMiddleware.wrap, version 2.0.0: the catch block's response.
StandardizedErrorResponse(err) ==
    [status |-> 500,
     headers |-> [k \in {"content-type", "cache-control"} |->
                    IF k = "content-type" THEN "application/json" ELSE "no-store"],
     body |-> ErrorJson("Proxy Error", GenericMessage, Timestamp)]

\* ErrorMiddleware.wrap of middleware/error-handler.mjs: the catch block's
\* response, with err.message.
MiddlewareErrorResponse(err) ==
    [status |-> 500,
     headers |-> [k \in {"content-type"} |-> "application/json"],
     body |-> ErrorJson("Proxy Error", err, Timestamp)]

\* The catch block of fetch in worker.mjs.
WorkerErrorResponse(err) ==
    [status |-> 500,
     headers |-> [k \in {"content-type"} |-> "text/plain;charset=UTF-8"],
     body |-> "An internal server error occurred."]

\* The error boundaries the repository has; a build wraps handleRequest in one.
ErrorBoundaries == {"standardized", "middleware", "worker"}

\* What the client gets when handleRequest throws an error of message err.
ErrorResponse(boundary, err) ==
    CASE boundary = "standardized" -> StandardizedErrorResponse(err)
      [] boundary = "middleware" -> MiddlewareErrorResponse(err)
      [] OTHER -> WorkerErrorResponse(err)

\* Messages of the exceptions handleRequest lets through.
NotAConstructor == "modDef.Class is not a constructor"

CacheUnavailable == "cache.match failed"

UriMalformed == "URI malformed"

(***************************************************************************)
(* Request orchestrator                                                    *)
(***************************************************************************)

\* targetURL.href.replace(/^http/, 'ws')
WsUrl(targetURL) == "ws" \o SliceFrom(Href(targetURL), 4)

\* The steps of handleRequest, in the order of its code.
StepOrder ==
    <<"asset", "cache", "resolver", "mods", "websocket", "rewriteRequest", "fetch",
      "rewriteResponse", "robots", "cacheWrite">>

Out(resp, fetches, writes) ==
    [response |-> resp, upstream |-> fetches, writes |-> writes, thrown |-> "",
     steps |-> <<>>]

\* The outcome o of steps that ran after the steps `before`.
After(before, o) == [o EXCEPT !.steps = before \o @]

\* The cache lookup and the cache storage run for a GET with the cache enabled.
CacheSteps(req, cfg, step) ==
    IF cfg.cacheEnabled /\ req.method = "GET" THEN <<step>> ELSE <<>>

\* handleRequest threw an error of message err.
Thrown(err) ==
    [response |-> NoResponse, upstream |-> <<>>, writes |-> {}, thrown |-> err,
     steps |-> <<>>]

\* wrap(fn) for the outcome o of handleRequest: the response of the catch
\* block of the build's error boundary when handleRequest threw.
wrap(o, boundary) ==
    IF o.thrown # "" THEN [o EXCEPT !.response = ErrorResponse(boundary, o.thrown)] ELSE o

Answered(o, targetURL) == [done |-> TRUE, out |-> o, targetURL |-> targetURL]

\* Steps 4 to 6 for a request no asset and no cache entry answered.
resolveTarget(req, cfg, targetURL) ==
    IF ~targetURL.ok
    THEN Bind(handleRootRedirect(req, RootDomain), LAMBDA redirect :
            Answered(
                After(<<"resolver">>,
                      IF redirect.threw THEN Thrown(UriMalformed)
                      ELSE IF redirect.response # NoResponse
                           THEN Out(redirect.response, <<>>, {})
                      ELSE Out([status |-> 404, headers |-> NoHeaders,
                                body |-> "Divortio Proxy: Invalid target. Try /?example.com"],
                               <<>>, {})),
                targetURL))
    ELSE IF cfg.modEnabled
         \* new modDef.Class(...args): the registry entry has no Class
         THEN Answered(After(<<"resolver", "mods">>,
                             Thrown(NotAConstructor)),
                       targetURL)
    ELSE IF HGetOr(req.headers, "upgrade", "") = "websocket"
         THEN Answered(
                  After(<<"resolver", "mods", "websocket">>,
                        Out([status |-> 101, headers |-> NoHeaders, body |-> ""],
                            <<[kind |-> "ws", url |-> WsUrl(targetURL), method |-> "GET",
                               headers |-> [k \in {"upgrade"} |-> "websocket"]]>>, {})),
                  targetURL)
    ELSE [done |-> FALSE,
          out |-> After(<<"resolver", "mods", "websocket">>, Out(NoResponse, <<>>, {})),
          targetURL |-> targetURL]

\* The outcome t of steps 4 to 6, after the asset generator and the cache lookup.
afterLookup(req, cfg, t) ==
    [t EXCEPT !.out = After(<<"asset">> \o CacheSteps(req, cfg, "cache"), @)]

\* handleRequest that looks the request up in the cache before it asks the
\* asset generator.
resolveRequestCacheFirst(req, cfg, cacheNow, matchThrew) ==
    IF cfg.cacheEnabled /\ req.method = "GET" /\ matchThrew
    THEN Answered(After(<<"cache">>, Thrown(CacheUnavailable)), BadURL)
    ELSE IF cfg.cacheEnabled /\ req.method = "GET" /\ getKey(req) \in DOMAIN cacheNow
    THEN Answered(After(<<"cache">>, Out(CacheHit(cacheNow[getKey(req)]), <<>>, {})),
                  BadURL)
    ELSE Bind(handleAsset(req), LAMBDA assetResponse :
            IF assetResponse # NoResponse
            THEN Answered(After(CacheSteps(req, cfg, "cache") \o <<"asset">>,
                                Out(assetResponse, <<>>, {})), BadURL)
            ELSE afterLookup(req, cfg,
                             resolveTarget(req, cfg, getTargetURL(req.url, RootDomain))))

\* handleRequest, steps 2 to 6 (assets, cache lookup, target resolution,
\* traffic mods, WebSocket upgrade) with the cache as it is now: done says
\* that one of them answered, out is then the response and the fetches issued.
\* matchThrew: cache.match(key) rejects, and CFCache.get with it.
resolveRequest(req, cfg, cacheNow, matchThrew) ==
    Bind(handleAsset(req), LAMBDA assetResponse :
        IF assetResponse # NoResponse
        THEN Answered(After(<<"asset">>, Out(assetResponse, <<>>, {})), BadURL)
        ELSE IF cfg.cacheEnabled /\ req.method = "GET" /\ matchThrew
             THEN Answered(After(<<"asset", "cache">>, Thrown(CacheUnavailable)), BadURL)
        ELSE IF cfg.cacheEnabled /\ req.method = "GET" /\ getKey(req) \in DOMAIN cacheNow
             THEN Answered(After(<<"asset", "cache">>,
                                 Out(CacheHit(cacheNow[getKey(req)]), <<>>, {})),
                           BadURL)
        ELSE afterLookup(req, cfg,
                         resolveTarget(req, cfg, getTargetURL(req.url, RootDomain))))

\* Steps 8 and 9 for the upstream's reply: the response rewritten, the robots
\* header set, the cache.put calls scheduled.
finishResponse(req, cfg, upstreamRequest, rewritten) ==
    Bind([rewritten EXCEPT
            !.headers = HSet(rewritten.headers, "x-robots-tag", "noindex, nofollow")],
         LAMBDA finalResponse :
            After(<<"rewriteResponse", "robots">> \o CacheSteps(req, cfg, "cacheWrite"),
                  Out(finalResponse, <<upstreamRequest>>,
                      IF cfg.cacheEnabled /\ req.method = "GET"
                      THEN save(req, finalResponse) ELSE {})))

\* Steps 7 to 9 with a fetch that is tried a second time when it rejects.
proxyRequestRetrying(req, targetURL, cfg, reply, live) ==
    Bind(rewriteRequest(req, targetURL, RootDomain, live), LAMBDA upstreamRequest :
        After(<<"rewriteRequest", "fetch">>,
              IF reply.failed
              THEN Out([status |-> 502, headers |-> NoHeaders, body |-> "Proxy Error"],
                       <<upstreamRequest, upstreamRequest>>, {})
              ELSE finishResponse(req, cfg, upstreamRequest,
                                  rewriteResponse(reply, targetURL, RootDomain))))

\* handleRequest, steps 7 to 9 (request rewriting, upstream fetch, response
\* rewriting, cache storage) for the reply the upstream gives and the
\* runtime's Headers iterator.
proxyRequest(req, targetURL, cfg, reply, live) ==
    Bind(rewriteRequest(req, targetURL, RootDomain, live), LAMBDA upstreamRequest :
        After(<<"rewriteRequest", "fetch">>,
              IF reply.failed
              THEN Out([status |-> 502, headers |-> NoHeaders, body |-> "Proxy Error"],
                       <<upstreamRequest>>, {})
              ELSE finishResponse(req, cfg, upstreamRequest,
                                  rewriteResponse(reply, targetURL, RootDomain))))

(***************************************************************************)
(* State                                                                   *)
(***************************************************************************)

VARIABLES
    config,     \* createConfig(env): [cacheEnabled, modEnabled]
    cache,      \* caches.default: request URL -> stored response
    pending,    \* cache.put calls handed to ctx.waitUntil, not yet done
    request,    \* the request handled last
    response,   \* the response returned for it
    upstream,   \* the upstream fetches issued for it, in order
    thrown,     \* the message of the error handleRequest threw for it, "" if none
    steps,      \* the steps of handleRequest that ran for it, in order
    cacheFault, \* the cache operation that failed in the last step: "", read, write
    origin,     \* what the upstream answered to the proxied fetch, if any
    fnSite,     \* header and URL rewriters run alone: which rewriter
    fnIn,       \* header and URL rewriters run alone: the input
    fnOut,      \* header and URL rewriters run alone: the outputs so far
    wsPhase,    \* handleSession: where the session is
    wsServer,   \* the server end of the WebSocketPair
    wsTarget,   \* originResponse.webSocket
    wsEvents,   \* events queued for the session's listeners, oldest first
    wsPeers,    \* the client and the upstream: messages sent, connection gone
    wsLog,      \* what the session did: handshake, forwards, failures, closes
    walker,     \* rewriteUrlsInJson: the module the build takes it from
    heap,       \* the objects of the JSON value: object -> key -> value
    seen,       \* the WeakSet handed down the recursion
    stack,      \* the calls of rewriteUrlsInJson in progress, outermost first
    visits,     \* how often the loop over an object's keys was entered
    walkStatus, \* idle, running, returned, threw
    domStack,   \* the elements of the page that are open, outermost first
    currentTag, \* TextRewriterBaseMod.currentTag
    chunk       \* the text chunk met last: the text, what the mod left, its ancestors

httpVars == <<config, cache, pending, request, response, upstream, thrown, steps,
              cacheFault, origin>>

fnVars == <<fnIn, fnOut, fnSite>>

wsVars == <<wsPhase, wsServer, wsTarget, wsEvents, wsPeers, wsLog>>

walkVars == <<walker, heap, seen, stack, visits, walkStatus>>

textVars == <<domStack, currentTag, chunk>>

vars == <<config, cache, pending, request, response, upstream, thrown, steps, cacheFault,
          origin,
          fnIn, fnOut, fnSite,
          wsPhase, wsServer, wsTarget, wsEvents, wsPeers, wsLog,
          walker, heap, seen, stack, visits, walkStatus,
          domStack, currentTag, chunk>>

(***************************************************************************)
(* Inputs of the orchestrator                                              *)
(***************************************************************************)

\* The most cache.put calls in flight at once.
MaxPending == 1

NoRequest == [method |-> "", url |-> "", headers |-> NoHeaders]

Req(method, url, headers) == [method |-> method, url |-> url, headers |-> headers]

LeakHeaders == [k \in {"accept", "cf-connecting-ip", "cf-ipcountry"} |-> "v"]

Requests ==
    {Req("GET", "https://x.com.p.example/img.png", NoHeaders),
     Req("GET", "https://x.com.p.example/img.png", LeakHeaders),
     Req("POST", "https://x.com.p.example/img.png", NoHeaders),
     Req("GET", "https://x.com.p.example/api", [k \in {"upgrade"} |-> "websocket"]),
     Req("GET", "https://evilp.example/img.png", NoHeaders),
     Req("GET", "https://x.com/img.png", NoHeaders),
     Req("GET", "https://x.com/__divortio_sw.js", NoHeaders),
     Req("GET", "https://p.example/", NoHeaders),
     Req("GET", "https://p.example/?example.com/path", NoHeaders),
     Req("GET", "https://p.example/?%zz", NoHeaders),
     Req("GET", "https://x.com.p.example/img.png",
         [k \in {"authorization", "cookie"} |->
             IF k = "cookie" THEN "sid=alice" ELSE "Bearer bob"])}

Reply(status, headers) == [status |-> status, headers |-> headers, body |-> "body", failed |-> FALSE]

\* fetch(upstreamRequest) rejected
FetchFailed == [status |-> 0, headers |-> NoHeaders, body |-> "", failed |-> TRUE]

\* No upstream fetch of the request rewriter's request was made.
NoReply == [status |-> 0, headers |-> NoHeaders, body |-> "", failed |-> FALSE]

UpstreamCookie == <<"sid=abc; Domain=.x.com; Secure; SameSite=None">>

Replies ==
    {FetchFailed,
     Reply(200, [k \in {"content-type"} |-> "image/png"]),
     Reply(200, [k \in {"content-type", "set-cookie"} |->
                    IF k = "content-type" THEN "image/png" ELSE UpstreamCookie]),
     Reply(200, [k \in {"content-type", "cache-control"} |->
                    IF k = "content-type" THEN "image/png" ELSE "Private, max-age=0"]),
     Reply(200, [k \in {"content-type", "set-cookie"} |->
                    IF k = "content-type" THEN "text/html" ELSE UpstreamCookie]),
     Reply(404, [k \in {"content-type"} |-> "image/png"]),
     Reply(302, [k \in {"location", "set-cookie"} |->
                    IF k = "location" THEN "https://x.com/login" ELSE UpstreamCookie]),
     Reply(304, [k \in {"content-type", "content-length"} |->
                    IF k = "content-type" THEN "image/png" ELSE "4"]),
     Reply(200, [k \in {"content-type", "x-proxy-cache"} |->
                    IF k = "content-type" THEN "text/html" ELSE "HIT"])}

\* The credentials of an upstream request: its Cookie and Authorization.
CredentialsOf(headers) ==
    HGetOr(headers, "cookie", "") \o HGetOr(headers, "authorization", "")

\* An upstream that answers a client it knows with that client's content,
\* in a response of a public content type.
PersonalReply(upstreamRequest) ==
    [status |-> 200,
     headers |-> [k \in {"content-type"} |-> "image/png"],
     body |-> IF CredentialsOf(upstreamRequest.headers) = "" THEN "body"
              ELSE "body of " \o CredentialsOf(upstreamRequest.headers),
     failed |-> FALSE]

\* What the upstream may answer to the request the proxy sends it.
UpstreamReplies(upstreamRequest) == Replies \cup {PersonalReply(upstreamRequest)}

(***************************************************************************)
(* The orchestrator's actions                                              *)
(***************************************************************************)

HttpInit ==
    /\ config \in [cacheEnabled : BOOLEAN, modEnabled : BOOLEAN]
    /\ cache = <<>>
    /\ pending = {}
    /\ request = NoRequest
    /\ response = NoResponse
    /\ upstream = <<>>
    /\ thrown = ""
    /\ steps = <<>>
    /\ cacheFault = ""
    /\ origin = NoReply

\* No worker of the orchestrator runs: one fixed configuration, nothing handled.
HttpIdle ==
    /\ config = [cacheEnabled |-> FALSE, modEnabled |-> FALSE]
    /\ cache = <<>>
    /\ pending = {}
    /\ request = NoRequest
    /\ response = NoResponse
    /\ upstream = <<>>
    /\ thrown = ""
    /\ steps = <<>>
    /\ cacheFault = ""
    /\ origin = NoReply

FnIdle == fnIn = "" /\ fnOut = <<>> /\ fnSite = ""

\* No text chunk has been handled.
NoChunk == [text |-> "", out |-> "", ancestors |-> <<>>]

\* No page is being rewritten: the mod is as its constructor left it.
TextIdle ==
    /\ domStack = <<>>
    /\ currentTag = ""
    /\ chunk = NoChunk

\* No JSON value is being walked.
WalkIdle ==
    /\ walker = ""
    /\ heap = <<>>
    /\ seen = {}
    /\ stack = <<>>
    /\ visits = <<>>
    /\ walkStatus = "idle"

\* No WebSocket endpoint exists.
NoSocket == [state |-> "none", code |-> 0, reason |-> ""]

\* No event handled by the close listener yet.
NoEvent == [on |-> "", type |-> "", code |-> 0, reason |-> "", data |-> ""]

NoPeer == [sent |-> 0, gone |-> FALSE]

NoLog == [handshake |-> "", closed |-> NoEvent, failed |-> "",
          toTarget |-> <<>>, toClient |-> <<>>]

WsIdle ==
    /\ wsPhase = "Init"
    /\ wsServer = NoSocket
    /\ wsTarget = NoSocket
    /\ wsEvents = <<>>
    /\ wsPeers = [e \in {"server", "target"} |-> NoPeer]
    /\ wsLog = NoLog

\* The state after handleRequest returned `out`, the upstream having
\* answered `reply` where it was asked, cache.match having rejected or not.
Respond(req, out, reply, matchThrew) ==
    /\ Cardinality(pending \cup out.writes) <= MaxPending
    /\ request' = req
    /\ response' = out.response
    /\ upstream' = out.upstream
    /\ thrown' = out.thrown
    /\ steps' = out.steps
    /\ cacheFault' = IF matchThrew THEN "read" ELSE ""
    /\ origin' = reply
    /\ pending' = pending \cup out.writes
    /\ UNCHANGED <<config, cache>>
    /\ UNCHANGED fnVars
    /\ UNCHANGED wsVars
    /\ UNCHANGED walkVars
    /\ UNCHANGED textVars

\* How headers.keys() may behave under deletion: the two behaviours differ
\* only when the loop deletes a header.
LiveChoices(headers) ==
    IF \E key \in DOMAIN headers : IsRemoved(key) THEN BOOLEAN ELSE {FALSE}

\* Whether cache.match may reject: the lookup runs for a GET with the cache
\* enabled that no asset answers.
MatchChoices(req) ==
    IF config.cacheEnabled /\ req.method = "GET" /\ handleAsset(req) = NoResponse
    THEN BOOLEAN ELSE {FALSE}

\* The error boundary of the build shows when handleRequest throws.
BoundaryChoices(o) == IF o.thrown # "" THEN ErrorBoundaries ELSE {"standardized"}

\* handleRequest inside the error boundary: one request handled from
\* arrival to the response.
HandleRequest ==
    \E req \in Requests :
        \E matchThrew \in MatchChoices(req) :
            \E r \in {resolveRequest(req, config, cache, matchThrew)} :
                IF r.done
                THEN \E boundary \in BoundaryChoices(r.out) :
                        Respond(req, wrap(r.out, boundary), NoReply, matchThrew)
                ELSE \E live \in LiveChoices(req.headers) :
                        \E reply \in UpstreamReplies(
                                rewriteRequest(req, r.targetURL, RootDomain, live)) :
                            Respond(req,
                                    After(r.out.steps,
                                          proxyRequest(req, r.targetURL, config, reply, live)),
                                    reply, matchThrew)

\* A cache.put scheduled with ctx.waitUntil completes: it replaces the entry.
CachePut ==
    \E w \in pending :
        /\ cache' = HSet(cache, w.key, w.response)
        /\ pending' = pending \ {w}
        /\ cacheFault' = ""
        /\ UNCHANGED <<config, request, response, upstream, thrown, steps, origin>>
        /\ UNCHANGED fnVars
        /\ UNCHANGED wsVars
        /\ UNCHANGED walkVars
        /\ UNCHANGED textVars

\* A cache.put scheduled with ctx.waitUntil rejects: the promise handed to
\* waitUntil is rejected, nothing is stored.
CachePutFails ==
    \E w \in pending :
        /\ pending' = pending \ {w}
        /\ cacheFault' = "write"
        /\ UNCHANGED <<config, cache, request, response, upstream, thrown, steps, origin>>
        /\ UNCHANGED fnVars
        /\ UNCHANGED wsVars
        /\ UNCHANGED walkVars
        /\ UNCHANGED textVars

(***************************************************************************)
(* The header and URL rewriters run alone, on inputs of the shapes the     *)
(* upstream and the client can send.                                       *)
(***************************************************************************)

NonEmpty(part) == part # ""

\* A Set-Cookie value of the upstream: name=value, then the attributes given.
SetCookieValue(name, domain, secure, sameSite) ==
    Join(SelectSeq(<<name \o "=abc", domain, secure, sameSite>>, NonEmpty), "; ")

CookieNames == {"sid", "__Host-sid"}

DomainAttributes == {"", "Domain=.x.com", "Domain=x.com"}

SecureAttributes == {"", "Secure"}

SameSiteAttributes == {"", "SameSite=None", "SameSite=Strict"}

\* rewriteSetCookieHeader on one Set-Cookie value of the upstream.
RewriteCookie ==
    /\ fnSite = ""
    /\ fnSite' = "cookie"
    /\ \E name \in CookieNames, domain \in DomainAttributes,
          secure \in SecureAttributes, sameSite \in SameSiteAttributes :
          /\ fnIn' = SetCookieValue(name, domain, secure, sameSite)
          /\ fnOut' = <<rewriteSetCookieHeader(SetCookieValue(name, domain, secure, sameSite),
                                               RootDomain)>>
    /\ UNCHANGED httpVars
    /\ UNCHANGED textVars
    /\ UNCHANGED wsVars
    /\ UNCHANGED walkVars

\* Header names a client or an intermediary can put on the incoming request.
IncomingNames ==
    {"accept", "cf-connecting-ip", "cf-ipcountry", "cf-worker", "via",
     "x-forwarded-for", "x-forwarded-host"}

ProxiedPage == "https://x.com.p.example/dir/page"

\* rewriteRequest on a request with any of the incoming header names: the
\* headers of the upstream request.
RewriteRequestHeaders ==
    /\ fnSite = ""
    /\ fnSite' = "request"
    /\ \E names \in SUBSET IncomingNames, live \in BOOLEAN :
          /\ fnIn' = [n \in names |-> "v"]
          /\ fnOut' = <<rewriteRequest(Req("GET", ProxiedPage, [n \in names |-> "v"]),
                                       getTargetURL(ProxiedPage, RootDomain),
                                       RootDomain, live).headers>>
    /\ UNCHANGED httpVars
    /\ UNCHANGED textVars
    /\ UNCHANGED wsVars
    /\ UNCHANGED walkVars

\* Referer values of incoming requests: a proxied page, the proxy's own
\* root page, a page of another site, and a path that new URL rejects.
Referers == {"", "https://x.com.p.example/dir/page?q=1", "https://p.example/?x.com",
             "https://other.org/", "/dir/page"}

\* Origin values of incoming requests.
Origins == {"", "https://x.com.p.example", "https://p.example", "null"}

\* The headers Referer and Origin of an incoming request, those given.
IdentityHeaders(refererValue, originValue) ==
    [name \in {n \in {"referer", "origin"} :
                  (IF n = "referer" THEN refererValue ELSE originValue) # ""} |->
        IF name = "referer" THEN refererValue ELSE originValue]

\* rewriteRequest on a request with a Referer and an Origin: the headers of
\* the upstream request.
FixIdentityHeaders ==
    /\ fnSite = ""
    /\ fnSite' = "identity"
    /\ \E refererValue \in Referers, originValue \in Origins, live \in BOOLEAN :
          /\ fnIn' = IdentityHeaders(refererValue, originValue)
          /\ fnOut' = <<rewriteRequest(Req("GET", ProxiedPage, IdentityHeaders(refererValue, originValue)),
                                       getTargetURL(ProxiedPage, RootDomain),
                                       RootDomain, live).headers>>
    /\ UNCHANGED httpVars
    /\ UNCHANGED textVars
    /\ UNCHANGED wsVars
    /\ UNCHANGED walkVars

\* The places where a URL of the upstream's response is mapped to a proxy URL.
RewriteSites == {"attribute", "link", "location", "json"}

\* The URL of the upstream document the rewritten response belongs to.
BaseURL == ParseURL("https://x.com/dir/page", NoBase)

\* URLs found in upstream responses.
FoundURLs ==
    {"https://x.com/login", "https://cdn.x.com/a.js?v=1", "https://x.com.p.example/login",
     "http://x.com/", "/login", "//cdn.x.com/a.js", "img.png", "https://p.example/"}

\* The proxy-URL mapping as the rewriter of `site` applies it.
ProxifyAt(site, u) ==
    CASE site = "attribute" -> rewriteAttributeValue(u, BaseURL, RootDomain)
      [] site = "link" -> rewriteLinkTarget(u, BaseURL, RootDomain)
      [] site = "location" -> rewriteLocationValue(u, BaseURL, RootDomain)
      [] OTHER -> rewriteJsonString(u, BaseURL, RootDomain)

\* A rewriter maps a URL of an upstream response.
Proxify ==
    /\ fnSite = ""
    /\ \E site \in RewriteSites, u \in FoundURLs :
          /\ fnSite' = site
          /\ fnIn' = u
          /\ fnOut' = <<ProxifyAt(site, u)>>
    /\ UNCHANGED httpVars
    /\ UNCHANGED textVars
    /\ UNCHANGED wsVars
    /\ UNCHANGED walkVars

\* The same rewriter meets its own output (a proxied page is proxied again).
ProxifyAgain ==
    /\ fnSite \in RewriteSites
    /\ fnSite' = fnSite
    /\ Len(fnOut) = 1
    /\ fnIn' = fnIn
    /\ fnOut' = Append(fnOut, ProxifyAt(fnSite, fnOut[1]))
    /\ UNCHANGED httpVars
    /\ UNCHANGED textVars
    /\ UNCHANGED wsVars
    /\ UNCHANGED walkVars

\* Statuses of upstream responses: 200, and the ones rewriteResponse passes
\* through.
UpstreamStatuses == {200, 204, 301, 302, 304, 307}

\* Content types of upstream responses, one for each content handler and
\* one for none.
ContentTypes ==
    {"text/html; charset=utf-8", "application/javascript", "text/css", "application/json",
     "application/xml", "image/png", "application/pdf"}

\* Content types in which the patterns of several handlers occur.
MixedContentTypes ==
    {"text/html+xml", "text/css+javascript", "application/json+xml", "application/pdf+xml"}

\* The headers of an upstream response of a Content-Type; "" for none.
TypedHeaders(contentType) ==
    IF contentType = "" THEN NoHeaders ELSE [k \in {"content-type"} |-> contentType]

\* rewriteResponse on an upstream response of a status and a content type.
RewriteResponse ==
    /\ fnSite = ""
    /\ fnSite' = "response"
    /\ \E status \in UpstreamStatuses, contentType \in ContentTypes \cup MixedContentTypes \cup {""} :
          \E reply \in {Reply(status, TypedHeaders(contentType))} :
              /\ fnIn' = reply
              /\ fnOut' = <<rewriteResponse(reply, BaseURL, RootDomain)>>
    /\ UNCHANGED httpVars
    /\ UNCHANGED textVars
    /\ UNCHANGED wsVars
    /\ UNCHANGED walkVars

\* An attribute of an HTML element the handlers rewrite: the handler, the
\* value, the http-equiv of a meta element, and the URLs the value holds.
Attr(handler, value, httpEquiv, urls) ==
    [handler |-> handler, value |-> value, httpEquiv |-> httpEquiv, urls |-> urls]

HtmlAttributes ==
    {Attr("attribute", "https://x.com.p.example/login", "", {"https://x.com.p.example/login"}),
     Attr("attribute", " https://cdn.x.com.p.example/a.js?v=1 ", "",
          {"https://cdn.x.com.p.example/a.js?v=1"}),
     Attr("attribute", "https://cdn.x.com/a.js?v=1", "", {"https://cdn.x.com/a.js?v=1"}),
     Attr("attribute", "/login", "", {"/login"}),
     Attr("srcset", "https://x.com.p.example/a.png", "", {"https://x.com.p.example/a.png"}),
     Attr("srcset", "https://x.com.p.example/a.png 1x, https://x.com.p.example/b.png 2x", "",
          {"https://x.com.p.example/a.png", "https://x.com.p.example/b.png"}),
     Attr("srcset", "https://x.com.p.example/a.png 1x,https://x.com.p.example/b.png 2x", "",
          {"https://x.com.p.example/a.png", "https://x.com.p.example/b.png"}),
     Attr("srcset", "https://x.com/a.png 1x, /b.png 2x", "", {"https://x.com/a.png", "/b.png"}),
     Attr("srcset", "https://x.com.p.example/a.png 1x, /b.png 2x", "",
          {"https://x.com.p.example/a.png", "/b.png"}),
     Attr("meta", "0;url=https://x.com.p.example/login", "refresh",
          {"https://x.com.p.example/login"}),
     Attr("meta", "0; URL='https://x.com/login'", "Refresh", {"https://x.com/login"}),
     Attr("meta", "https://x.com.p.example/og.png", "", {"https://x.com.p.example/og.png"}),
     Attr("meta", "/og.png", "", {"/og.png"})}

\* The attribute value after the handler of the attribute.
rewriteHtmlAttribute(a, baseURL, rootDomain) ==
    CASE a.handler = "attribute" -> rewriteAttributeValue(a.value, baseURL, rootDomain)
      [] a.handler = "srcset" -> rewriteSrcset(a.value, baseURL, rootDomain)
      [] OTHER -> rewriteMetaContent(a.httpEquiv, a.value, baseURL, rootDomain)

\* An HTML handler meets an attribute of an element of the upstream page.
RewriteAttribute ==
    /\ fnSite = ""
    /\ fnSite' = "html"
    /\ \E a \in HtmlAttributes :
          /\ fnIn' = a
          /\ fnOut' = <<rewriteHtmlAttribute(a, BaseURL, RootDomain)>>
    /\ UNCHANGED httpVars
    /\ UNCHANGED textVars
    /\ UNCHANGED wsVars
    /\ UNCHANGED walkVars

\* A suffix test on the host that leaves out the dot before the root.
shouldRunBySuffix(domainPattern, host) ==
    IF domainPattern = "*" THEN TRUE
    ELSE IF StartsWith(domainPattern, "*.")
         THEN EndsWith(host, SliceFrom(domainPattern, 2))
    ELSE host = domainPattern

\* BaseMod.shouldRun(targetURL), host being targetURL.hostname.
shouldRun(domainPattern, host) ==
    IF domainPattern = "*" THEN TRUE
    ELSE IF StartsWith(domainPattern, "*.")
         THEN Bind(SliceFrom(domainPattern, 2), LAMBDA root :
                  host = root \/ EndsWith(host, "." \o root))
    ELSE host = domainPattern

\* The domain_pattern values of mods: the wildcard, subdomain patterns, hosts.
DomainPatterns == {"*", "*.ex.com", "*.com", "ex.com", "a.ex.com", ".ex.com"}

\* The hostnames of target URLs.
TargetHosts == {"ex.com", "a.ex.com", "b.a.ex.com", "other.com", "notex.com", "ex.com.evil.net"}

\* shouldRun of a mod with a domain pattern, asked for a target host.
ShouldRun ==
    /\ fnSite = ""
    /\ fnSite' = "mod"
    /\ \E domainPattern \in DomainPatterns, host \in TargetHosts :
          /\ fnIn' = [domainPattern |-> domainPattern, host |-> host]
          /\ fnOut' = <<shouldRun(domainPattern, host)>>
    /\ UNCHANGED httpVars
    /\ UNCHANGED textVars
    /\ UNCHANGED wsVars
    /\ UNCHANGED walkVars

\* The least member of a non-empty set of positions.
First(positions) == CHOOSE i \in positions : \A j \in positions : i <= j

\* The positions of headerValue at which word occurs, in whatever case.
OccurrencesOf(headerValue, word) ==
    {i \in 1..(Len(headerValue) - Len(word) + 1) :
        ToLowerCase(SubSeq(headerValue, i, i + Len(word) - 1)) = word}

\* headerValue.replace(/upgrade-insecure-requests/gi, '')
RECURSIVE RemoveUpgradeInsecure(_)
RemoveUpgradeInsecure(headerValue) ==
    Bind(OccurrencesOf(headerValue, "upgrade-insecure-requests"), LAMBDA found :
        IF found = {} THEN headerValue
        ELSE SubSeq(headerValue, 1, First(found) - 1)
                 \o RemoveUpgradeInsecure(SliceFrom(headerValue, First(found) + 24)))

\* /\s/ for the white space of a header value
IsSpace(c) == c = " " \/ c = "\t"

\* The regex (directive\s+)([^;]+) with the flag i matches at position i of
\* header: the directive, white space, and one more character that is no ';'.
DirectiveAt(header, directive, i) ==
    /\ i + Len(directive) + 1 <= Len(header)
    /\ ToLowerCase(SubSeq(header, i, i + Len(directive) - 1)) = directive
    /\ IsSpace(SubSeq(header, i + Len(directive), i + Len(directive)))
    /\ SubSeq(header, i + Len(directive) + 1, i + Len(directive) + 1) # ";"

\* The position of the last character of the run of [^;] that starts at i.
RunEnd(header, i) ==
    First({j \in i..Len(header) :
              j = Len(header) \/ SubSeq(header, j + 1, j + 1) = ";"})

\* const relax = (header, directive, value) => ...
relax(header, directive, value) ==
    Bind({i \in 1..Len(header) : DirectiveAt(header, directive, i)}, LAMBDA matches :
        IF matches # {}
        THEN Bind(RunEnd(header, First(matches)),
                  LAMBDA last : SubSeq(header, 1, last) \o " " \o value
                                    \o SliceFrom(header, last))
        ELSE header \o "; " \o directive \o " " \o value)

\* rewriteCSP(headerValue)
rewriteCSP(headerValue) ==
    relax(relax(relax(relax(RemoveUpgradeInsecure(headerValue),
                            "script-src", "'unsafe-inline' 'unsafe-eval' * data:"),
                      "connect-src", "'self' *"),
                "img-src", "'self' * data:"),
          "style-src", "'unsafe-inline' *")

\* Content-Security-Policy values of upstream responses.
Policies ==
    {"default-src 'self'", "script-src 'self'; upgrade-insecure-requests",
     "Script-Src 'none'; img-src *",
     "script-src *; connect-src *; img-src *; style-src *"}

\* rewriteResponse relaxes the policy of an upstream response, and relaxes
\* it again when the response of a proxied page passes the proxy a second time.
RewriteCSP ==
    /\ fnSite = ""
    /\ fnSite' = "csp"
    /\ \E headerValue \in Policies :
          /\ fnIn' = headerValue
          /\ fnOut' = <<rewriteCSP(headerValue), rewriteCSP(rewriteCSP(headerValue))>>
    /\ UNCHANGED httpVars
    /\ UNCHANGED textVars
    /\ UNCHANGED wsVars
    /\ UNCHANGED walkVars

\* Bodies of upstream responses of Content-Type application/json: a document,
\* the same document cut short, and an error page.
JsonBodies ==
    {"{\"u\":\"https://x.com/a\"}", "{\"u\":\"https://x.com/a", "<html>Bad Gateway</html>"}

\* response.json() for the documents {"u": string}: the value of u, or a
\* SyntaxError (ok = FALSE). The body stream is read to its end either way.
JsonParse(body) ==
    IF /\ StartsWith(body, "{\"u\":\"")
       /\ EndsWith(body, "\"}")
       /\ Len(body) >= 9
       /\ ~Includes(SubSeq(body, 7, Len(body) - 2), "\"")
    THEN [ok |-> TRUE, u |-> SubSeq(body, 7, Len(body) - 2)]
    ELSE [ok |-> FALSE, u |-> ""]

\* JSON.stringify(json) for the documents {"u": string}
JsonStringify(json) == "{\"u\":\"" \o json.u \o "\"}"

\* What a handler returned: a response, or the message of what it threw.
Handled(status, headers, body) ==
    [status |-> status, headers |-> headers, body |-> body, thrown |-> ""]

BodyUnusable == "Response body object should not be disturbed or locked"

\* new Response(response.body, init) for a body stream that was read to its
\* end: the constructor throws a TypeError, or the response has no bytes
\* left to deliver.
FromUsedBody(resp) ==
    {[status |-> 0, headers |-> NoHeaders, body |-> "", thrown |-> BodyUnusable],
     Handled(resp.status, resp.headers, "")}

\* handleJson(response, targetURL, rootDomain): the outcomes.
handleJson(resp, targetURL, rootDomain) ==
    Bind(JsonParse(resp.body), LAMBDA json :
        IF json.ok
        THEN {Handled(resp.status, resp.headers,
                      JsonStringify([u |-> rewriteJsonString(json.u, targetURL, rootDomain)]))}
        ELSE FromUsedBody(resp))

\* handleJson on a response whose headers rewriteResponse has rewritten.
HandleJson ==
    /\ fnSite = ""
    /\ fnSite' = "handleJson"
    /\ \E status \in {200, 404}, body \in JsonBodies :
          \E resp \in {[status |-> status,
                        headers |-> [k \in {"content-type"} |-> "application/json"],
                        body |-> body]} :
              /\ fnIn' = resp
              /\ \E outcome \in handleJson(resp, BaseURL, RootDomain) :
                    fnOut' = <<outcome>>
    /\ UNCHANGED httpVars
    /\ UNCHANGED textVars
    /\ UNCHANGED wsVars
    /\ UNCHANGED walkVars

FnInit == HttpIdle /\ FnIdle /\ WsIdle /\ WalkIdle /\ TextIdle

FnNext ==
    \/ RewriteCookie
    \/ RewriteRequestHeaders
    \/ Proxify
    \/ ProxifyAgain
    \/ RewriteResponse
    \/ ShouldRun
    \/ RewriteAttribute
    \/ HandleJson
    \/ RewriteCSP
    \/ FixIdentityHeaders

SpecFn == FnInit /\ [][FnNext]_vars

(***************************************************************************)
(* WebSocket tunnel (handleWebSocket, handleSession)                       *)
(***************************************************************************)

\* The most events queued for the session's listeners at once.
MaxEvents == 2

\* The most messages each peer sends.
MaxMessages == 2

OpenSocket == [state |-> "open", code |-> 0, reason |-> ""]

\* Close codes a peer's close frame reaches the listener with: a normal
\* closure, no status in the frame, an application code.
CloseCodes == {1000, 1005, 4000}

\* Codes no close frame may carry: close(code) rejects them with a TypeError.
ReservedCodes == {1004, 1005, 1006, 1015}

\* socket.close(code, reason) under try/catch: an endpoint already closed
\* stays as it is, and so does one whose close call threw.
TryClose(socket, code, reason, threw) ==
    IF socket.state = "open" /\ ~threw
    THEN [state |-> "closed", code |-> code, reason |-> reason]
    ELSE socket

\* code || 1000
CodeOr(code) == IF code = 0 THEN 1000 ELSE code

\* reason || "Normal Closure"
ReasonOr(reason) == IF reason = "" THEN "Normal Closure" ELSE reason

\* The close of a session that answers every failed handshake alike.
handshakeCloseProtocolError(outcome) ==
    [code |-> 1002, reason |-> "Upstream did not upgrade"]

\* The close the session gives the client when the handshake with the
\* upstream ends in `outcome`: a status other than 101, or the catch block.
handshakeClose(outcome) ==
    IF outcome = "non101"
    THEN [code |-> 1002, reason |-> "Upstream did not upgrade"]
    ELSE [code |-> 1011, reason |-> "Failed to connect to upstream"]

HandshakeOutcomes == {"ok", "non101", "nosocket", "fetchfail"}

\* handleWebSocket: the pair is created, handleSession accepts the server
\* end and awaits the upstream fetch; the client has its 101.
WsAccept ==
    /\ wsPhase = "Init"
    /\ wsPhase' = "Upgrading"
    /\ wsServer' = OpenSocket
    /\ UNCHANGED <<wsTarget, wsEvents, wsPeers, wsLog>>
    /\ UNCHANGED httpVars
    /\ UNCHANGED textVars
    /\ UNCHANGED fnVars
    /\ UNCHANGED walkVars

\* handleSession after the await: the upstream upgraded and the listeners
\* are registered, or the session closes the client and returns.
WsUpgrade ==
    /\ wsPhase = "Upgrading"
    /\ \E outcome \in HandshakeOutcomes :
          /\ wsLog' = [wsLog EXCEPT !.handshake = outcome]
          /\ IF outcome = "ok"
             THEN /\ wsPhase' = "Established"
                  /\ wsTarget' = OpenSocket
                  /\ wsServer' = wsServer
             ELSE /\ wsPhase' = "Closed"
                  /\ wsTarget' = wsTarget
                  /\ wsServer' = TryClose(wsServer, handshakeClose(outcome).code,
                                          handshakeClose(outcome).reason, FALSE)
    /\ UNCHANGED <<wsEvents, wsPeers>>
    /\ UNCHANGED httpVars
    /\ UNCHANGED textVars
    /\ UNCHANGED fnVars
    /\ UNCHANGED walkVars

Message(on, data) == [on |-> on, type |-> "message", code |-> 0, reason |-> "", data |-> data]

\* The i-th message of the peer of endpoint `on`.
DataOf(on, i) == <<on, i>>

\* The peer of an endpoint (the client for server, the upstream for
\* targetWebSocket) sends its next message.
PeerSends ==
    \E on \in {"server", "target"} :
        /\ (IF on = "server" THEN wsServer ELSE wsTarget).state # "none"
        /\ ~wsPeers[on].gone
        /\ wsPeers[on].sent < MaxMessages
        /\ Len(wsEvents) < MaxEvents
        /\ wsEvents' = Append(wsEvents, Message(on, DataOf(on, wsPeers[on].sent + 1)))
        /\ wsPeers' = [wsPeers EXCEPT ![on].sent = @ + 1]
        /\ UNCHANGED <<wsPhase, wsServer, wsTarget, wsLog>>
        /\ UNCHANGED httpVars
        /\ UNCHANGED textVars
        /\ UNCHANGED fnVars
        /\ UNCHANGED walkVars

\* A peer's close frame arrives: a close event with the frame's code and reason.
PeerCloses ==
    \E on \in {"server", "target"}, code \in CloseCodes, reason \in {"", "bye"} :
        /\ (IF on = "server" THEN wsServer ELSE wsTarget).state # "none"
        /\ ~wsPeers[on].gone
        /\ code \in ReservedCodes => reason = ""
        /\ Len(wsEvents) < MaxEvents
        /\ wsEvents' = Append(wsEvents, [on |-> on, type |-> "close", code |-> code,
                                         reason |-> reason, data |-> ""])
        /\ wsPeers' = [wsPeers EXCEPT ![on].gone = TRUE]
        /\ UNCHANGED <<wsPhase, wsServer, wsTarget, wsLog>>
        /\ UNCHANGED httpVars
        /\ UNCHANGED textVars
        /\ UNCHANGED fnVars
        /\ UNCHANGED walkVars

\* A peer's connection breaks: an error event, which carries no code.
PeerErrors ==
    \E on \in {"server", "target"} :
        /\ (IF on = "server" THEN wsServer ELSE wsTarget).state # "none"
        /\ ~wsPeers[on].gone
        /\ Len(wsEvents) < MaxEvents
        /\ wsEvents' = Append(wsEvents, [on |-> on, type |-> "error", code |-> 0,
                                         reason |-> "", data |-> ""])
        /\ wsPeers' = [wsPeers EXCEPT ![on].gone = TRUE]
        /\ UNCHANGED <<wsPhase, wsServer, wsTarget, wsLog>>
        /\ UNCHANGED httpVars
        /\ UNCHANGED textVars
        /\ UNCHANGED fnVars
        /\ UNCHANGED walkVars

\* A message listener of server that is registered twice: every message of
\* the client is sent to the upstream two times.
forwardToTargetTwice(e, sendThrew) ==
    IF sendThrew \/ wsTarget.state # "open"
    THEN /\ wsServer' = TryClose(wsServer, 1011, "Upstream send failed", FALSE)
         /\ wsLog' = [wsLog EXCEPT !.failed = "upstream"]
         /\ wsTarget' = wsTarget
    ELSE /\ wsLog' = [wsLog EXCEPT !.toTarget = Append(Append(@, e.data), e.data)]
         /\ UNCHANGED <<wsServer, wsTarget>>

\* The message listener of server: targetWebSocket.send(event.data), and
\* server.close(1011) when it throws. send throws on a closed socket.
forwardToTarget(e, sendThrew) ==
    IF sendThrew \/ wsTarget.state # "open"
    THEN /\ wsServer' = TryClose(wsServer, 1011, "Upstream send failed", FALSE)
         /\ wsLog' = [wsLog EXCEPT !.failed = "upstream"]
         /\ wsTarget' = wsTarget
    ELSE /\ wsLog' = [wsLog EXCEPT !.toTarget = Append(@, e.data)]
         /\ UNCHANGED <<wsServer, wsTarget>>

\* The message listener of targetWebSocket: server.send(event.data), and
\* server.close(1011) when it throws.
forwardToClient(e, sendThrew) ==
    IF sendThrew \/ wsServer.state # "open"
    THEN /\ wsServer' = TryClose(wsServer, 1011, "Downstream send failed", FALSE)
         /\ wsLog' = [wsLog EXCEPT !.failed = "downstream"]
         /\ wsTarget' = wsTarget
    ELSE /\ wsLog' = [wsLog EXCEPT !.toClient = Append(@, e.data)]
         /\ UNCHANGED <<wsServer, wsTarget>>

\* const close = (event) => ...: the listener of close and error on both
\* endpoints. closeThrew: close(code, reason) rejected the code.
close(e, closeThrew) ==
    /\ wsServer' = TryClose(wsServer, CodeOr(e.code), ReasonOr(e.reason), closeThrew)
    /\ wsTarget' = TryClose(wsTarget, CodeOr(e.code), ReasonOr(e.reason), closeThrew)
    /\ wsLog' = IF wsLog.closed = NoEvent THEN [wsLog EXCEPT !.closed = e] ELSE wsLog

\* The event loop hands the oldest queued event to its listener; before the
\* listeners are registered, and after a failed handshake, there is none.
WsDispatch ==
    /\ wsEvents # <<>>
    /\ wsEvents' = Tail(wsEvents)
    /\ IF wsPhase # "Established"
       THEN UNCHANGED <<wsServer, wsTarget, wsLog>>
       ELSE IF Head(wsEvents).type = "message"
            THEN \E sendThrew \in BOOLEAN :
                    IF Head(wsEvents).on = "server"
                    THEN forwardToTarget(Head(wsEvents), sendThrew)
                    ELSE forwardToClient(Head(wsEvents), sendThrew)
            ELSE \E closeThrew \in (IF CodeOr(Head(wsEvents).code) \in ReservedCodes
                                    THEN BOOLEAN ELSE {FALSE}) :
                    close(Head(wsEvents), closeThrew)
    /\ UNCHANGED <<wsPhase, wsPeers>>
    /\ UNCHANGED httpVars
    /\ UNCHANGED textVars
    /\ UNCHANGED fnVars
    /\ UNCHANGED walkVars

WsInit == HttpIdle /\ FnIdle /\ WsIdle /\ WalkIdle /\ TextIdle

WsNext == WsAccept \/ WsUpgrade \/ PeerSends \/ PeerCloses \/ PeerErrors \/ WsDispatch

\* The event loop runs a queued event's listener sooner or later.
SpecWs == WsInit /\ [][WsNext]_vars /\ WF_vars(WsDispatch)

(***************************************************************************)
(* JSON tree walker (rewriteUrlsInJson), call by call                      *)
(***************************************************************************)

\* The most objects of a JSON value.
MaxObjects == 2

\* The depth of recursion at which the runtime throws RangeError.
MaxStack == 4

Objects == 1..MaxObjects

\* The keys of an object, in the order for...in enumerates them.
Keys == <<"a", "b">>

\* A string value that is a URL of the upstream.
JsonUrl == "https://x.com/a"

\* The value of a key: a reference to an object (ref), or a string (ref 0).
Ref(o) == [ref |-> o, str |-> ""]

Str(text) == [ref |-> 0, str |-> text]

JsonValues == {Ref(o) : o \in Objects} \cup {Str(JsonUrl)}

\* The two rewriteUrlsInJson of the repository: rewriters/mimeType/json.mjs
\* with the WeakSet, rewriters/parsers.mjs without.
Walkers == {"mimeType/json.mjs", "parsers.mjs"}

\* rewriteUrlsInJson(jsonObj, baseURL, rootDomain, seen) is called from the
\* frames `frames`: it returns at once for an object that was seen, it
\* overflows the stack, or it enters the loop over the keys of jsonObj.
Call(jsonObj, frames) ==
    IF walker = "mimeType/json.mjs" /\ jsonObj \in seen
    THEN /\ stack' = frames
         /\ walkStatus' = IF frames = <<>> THEN "returned" ELSE "running"
         /\ UNCHANGED <<seen, visits>>
    ELSE IF Len(frames) = MaxStack
    THEN /\ stack' = <<>>
         /\ walkStatus' = "threw"
         /\ UNCHANGED <<seen, visits>>
    ELSE /\ stack' = Append(frames, [jsonObj |-> jsonObj, keys |-> Keys])
         /\ walkStatus' = "running"
         /\ seen' = IF walker = "mimeType/json.mjs" THEN seen \cup {jsonObj} ELSE seen
         /\ visits' = [visits EXCEPT ![jsonObj] = @ + 1]

\* The frames with the innermost call gone on to its next key.
NextKey(frames) ==
    [frames EXCEPT ![Len(frames)].keys = Tail(@)]

\* The string a walker puts in the place of the string val.
RewrittenString(val) ==
    IF walker = "mimeType/json.mjs"
    THEN rewriteJsonString(val, BaseURL, RootDomain)
    ELSE rewriteJsonStringUnchecked(val, BaseURL, RootDomain)

\* The handler calls rewriteUrlsInJson(json, targetURL, rootDomain).
WalkStart ==
    /\ walkStatus = "idle"
    /\ Call(1, <<>>)
    /\ UNCHANGED <<walker, heap>>
    /\ UNCHANGED httpVars
    /\ UNCHANGED textVars
    /\ UNCHANGED fnVars
    /\ UNCHANGED wsVars

\* One turn of `for (const key in jsonObj)` in the innermost call: a string
\* is rewritten in place, an object is walked.
WalkKey ==
    /\ walkStatus = "running"
    /\ stack[Len(stack)].keys # <<>>
    /\ \E jsonObj \in {stack[Len(stack)].jsonObj}, key \in {Head(stack[Len(stack)].keys)} :
          \E val \in {heap[jsonObj][key]} :
              IF val.ref # 0
              THEN Call(val.ref, NextKey(stack)) /\ heap' = heap
              ELSE /\ heap' = [heap EXCEPT ![jsonObj][key] = Str(RewrittenString(val.str))]
                   /\ stack' = NextKey(stack)
                   /\ UNCHANGED <<seen, visits, walkStatus>>
    /\ walker' = walker
    /\ UNCHANGED httpVars
    /\ UNCHANGED textVars
    /\ UNCHANGED fnVars
    /\ UNCHANGED wsVars

\* The loop of the innermost call is over: it returns to its caller.
WalkReturn ==
    /\ walkStatus = "running"
    /\ stack[Len(stack)].keys = <<>>
    /\ stack' = SubSeq(stack, 1, Len(stack) - 1)
    /\ walkStatus' = IF Len(stack) = 1 THEN "returned" ELSE "running"
    /\ UNCHANGED <<walker, heap, seen, visits>>
    /\ UNCHANGED httpVars
    /\ UNCHANGED textVars
    /\ UNCHANGED fnVars
    /\ UNCHANGED wsVars

\* A JSON value parsed or built by a caller: any graph of objects, back-edges
\* and shared objects included.
JsonInit ==
    /\ HttpIdle /\ FnIdle /\ WsIdle /\ TextIdle
    /\ walker \in Walkers
    /\ heap \in [Objects -> [{Keys[i] : i \in 1..Len(Keys)} -> JsonValues]]
    /\ seen = {}
    /\ stack = <<>>
    /\ visits = [o \in Objects |-> 0]
    /\ walkStatus = "idle"

JsonNext == WalkStart \/ WalkKey \/ WalkReturn

\* A call in progress goes on.
SpecJson == JsonInit /\ [][JsonNext]_vars /\ WF_vars(JsonNext)

(***************************************************************************)
(* Text-rewriter mods (TextRewriterBaseMod) on the events of HTMLRewriter   *)
(***************************************************************************)

\* How deep the elements of the model's pages nest.
MaxDepth == 3

\* The elements of the pages: the mod is bound to the selector '*'.
Tags == {"pre", "b", "script"}

UNSAFE_TAGS == {"style", "svg", "noscript", "textarea", "pre", "code"}

\* A word of PROFANITY_LIST, and the replacement of the registry entry.
FoulWord == "foul"

Replacement == "[FOUL LANGUAGE]"

\* The text chunks of the pages.
Texts == {"foul", "so Foul a day", "no harm", "x/foul", "foul: 1"}

\* \w of the regular expression.
IsWordChar(c) ==
    \/ c \in DOMAIN LowerOf
    \/ c \in {LowerOf[u] : u \in DOMAIN LowerOf}
    \/ c \in {"0", "1", "2", "3", "4", "5", "6", "7", "8", "9", "_"}

\* fullString[i], "" for undefined; i counted from 1.
CharAt(fullString, i) == IF i >= 1 /\ i <= Len(fullString) THEN SubSeq(fullString, i, i) ELSE ""

\* The regex \b(foul)\b with the flag i matches at position i of text.
MatchesAt(fullString, i) ==
    /\ i + Len(FoulWord) - 1 <= Len(fullString)
    /\ ToLowerCase(SubSeq(fullString, i, i + Len(FoulWord) - 1)) = FoulWord
    /\ ~IsWordChar(CharAt(fullString, i - 1))
    /\ ~IsWordChar(CharAt(fullString, i + Len(FoulWord)))

\* The callback of replaceSafe returns the match itself: the character
\* before it is one of / . @ - or the one after it is a colon.
KeptByHeuristic(fullString, i) ==
    \/ CharAt(fullString, i - 1) \in {"/", ".", "@", "-"}
    \/ CharAt(fullString, i + Len(FoulWord)) = ":"

\* text.replace(this.regex, callback) from position i on; guarded is TRUE
\* for the callback of replaceSafe.
RECURSIVE ReplaceFrom(_, _, _)
ReplaceFrom(fullString, i, guarded) ==
    IF i > Len(fullString) THEN ""
    ELSE IF MatchesAt(fullString, i)
         THEN (IF guarded /\ KeptByHeuristic(fullString, i)
               THEN SubSeq(fullString, i, i + Len(FoulWord) - 1)
               ELSE Replacement)
              \o ReplaceFrom(fullString, i + Len(FoulWord), guarded)
    ELSE CharAt(fullString, i) \o ReplaceFrom(fullString, i + 1, guarded)

replaceStandard(fullString) == ReplaceFrom(fullString, 1, FALSE)

replaceSafe(fullString) == ReplaceFrom(fullString, 1, TRUE)

\* TextRewriterBaseMod.text: the text of the chunk after the handler, the
\* mod's currentTag being tag.
text(tag, chunkText) ==
    IF chunkText = "" THEN chunkText
    ELSE IF tag \in UNSAFE_TAGS THEN chunkText
    ELSE IF tag = "script" THEN replaceSafe(chunkText)
    ELSE replaceStandard(chunkText)

\* TextRewriterBaseMod.element: a start tag sets currentTag.
ElementOpen ==
    /\ Len(domStack) < MaxDepth
    /\ \E tag \in Tags :
          /\ domStack' = Append(domStack, tag)
          /\ currentTag' = ToLowerCase(tag)
    /\ chunk' = chunk
    /\ UNCHANGED httpVars
    /\ UNCHANGED fnVars
    /\ UNCHANGED wsVars
    /\ UNCHANGED walkVars

\* The callback of element.onEndTag: the end tag of the innermost open
\* element clears currentTag.
ElementClose ==
    /\ domStack # <<>>
    /\ domStack' = SubSeq(domStack, 1, Len(domStack) - 1)
    /\ currentTag' = ""
    /\ chunk' = chunk
    /\ UNCHANGED httpVars
    /\ UNCHANGED fnVars
    /\ UNCHANGED wsVars
    /\ UNCHANGED walkVars

\* A text chunk inside the innermost open element reaches the text handler.
TextChunk ==
    /\ \E chunkText \in Texts :
          chunk' = [text |-> chunkText, out |-> text(currentTag, chunkText),
                    ancestors |-> domStack]
    /\ UNCHANGED <<domStack, currentTag>>
    /\ UNCHANGED httpVars
    /\ UNCHANGED fnVars
    /\ UNCHANGED wsVars
    /\ UNCHANGED walkVars

TextInit == HttpIdle /\ FnIdle /\ WsIdle /\ WalkIdle /\ TextIdle

TextNext == ElementOpen \/ ElementClose \/ TextChunk

SpecText == TextInit /\ [][TextNext]_vars

Init == HttpInit /\ FnIdle /\ WsIdle /\ WalkIdle /\ TextIdle

Next == HandleRequest \/ CachePut \/ CachePutFails

Spec == Init /\ [][Next]_vars

(***************************************************************************)
(* Properties of the orchestrator (Spec)                                   *)
(***************************************************************************)

\* The hostname of a request URL is neither the root domain nor under it.
OffDomain(url) ==
    Bind(ParseURL(url, NoBase).hostname, LAMBDA h :
        h # RootDomain /\ ~EndsWith(h, "." \o RootDomain))

\* C1 (domain lock): a request whose hostname is neither root_domain nor
\* ends with "." root_domain is answered with a status in 400..599, and no
\* upstream fetch is issued for it.
C1_DomainLock ==
    (request # NoRequest /\ OffDomain(request.url))
        => (response.status \in 400..599 /\ upstream = <<>>)

\* C2 (cookie safety): no entry of the edge cache has a Set-Cookie header.
C2_CookieSafety ==
    \A k \in DOMAIN cache : ~HHas(cache[k].headers, "set-cookie")

\* A GET whose upstream reply and whose rewritten response carried
\* Set-Cookie, with the entry written for it in the cache.
C2_Witness ==
    /\ request.method = "GET"
    /\ HHas(origin.headers, "set-cookie")
    /\ HHas(response.headers, "set-cookie")
    /\ pending = {}
    /\ request.url \in DOMAIN cache
    /\ cache[request.url].body = response.body

\* The attributes of a Set-Cookie value: its parts after name=value, trimmed.
CookieAttributes(value) ==
    Bind(Split(value, ";"), LAMBDA parts : [i \in 1..(Len(parts) - 1) |-> Trim(parts[i + 1])])

IsDomainAttribute(attribute) == StartsWith(ToLowerCase(attribute), "domain=")

\* The Set-Cookie value `out` is hardened: Secure, SameSite=Lax, and the
\* one Domain attribute of root_domain, none for a __Host- cookie.
Hardened(out) ==
    Bind(CookieAttributes(out), LAMBDA attributes :
        /\ \E i \in 1..Len(attributes) : attributes[i] = "Secure"
        /\ \E i \in 1..Len(attributes) : attributes[i] = "SameSite=Lax"
        /\ SelectSeq(attributes, IsDomainAttribute) =
               (IF StartsWith(out, "__Host-") THEN <<>> ELSE <<"Domain=" \o RootDomain>>))

\* C4 (redirects are fully header-rewritten): when the upstream answers a
\* 204, a 304 or a 3xx, the client gets that status, the Location mapped to
\* the proxy URL, and every Set-Cookie rewritten to Domain=root_domain;
\* Secure; SameSite=Lax.
C4_RedirectRewritten ==
    (~origin.failed /\ IsShortcutStatus(origin.status))
        => /\ response.status = origin.status
           /\ HHas(origin.headers, "location") =>
                 /\ HHas(response.headers, "location")
                 /\ response.headers["location"] =
                        ProxyUrlOf(ParseURL(origin.headers["location"], NoBase), RootDomain)
           /\ HHas(origin.headers, "set-cookie") =>
                 /\ HHas(response.headers, "set-cookie")
                 /\ \A i \in 1..Len(response.headers["set-cookie"]) :
                        Hardened(response.headers["set-cookie"][i])

\* /private|no-store|no-cache/i on the Cache-Control of a response
MarkedPrivate(resp) ==
    Bind(ToLowerCase(HGetOr(resp.headers, "cache-control", "")), LAMBDA cc :
        Includes(cc, "private") \/ Includes(cc, "no-store") \/ Includes(cc, "no-cache"))

\* C10 (cache write safety filter): a cache write is scheduled only with
\* cache.enabled, for a GET, for a rewritten response of status 200 whose
\* Content-Type contains an entry of cacheable_types and whose Cache-Control
\* matches none of private, no-store, no-cache; and the cache changes only
\* by such a write being carried out.
C10_WriteFilter ==
    [][/\ \A w \in pending' \ pending :
             /\ config.cacheEnabled
             /\ request'.method = "GET"
             /\ w.key = request'.url
             /\ response'.status = 200
             /\ \E i \in 1..Len(CacheableTypes) :
                    Includes(HGetOr(response'.headers, "content-type", ""), CacheableTypes[i])
             /\ ~MarkedPrivate(response')
       /\ cache' # cache => \E w \in pending : cache' = HSet(cache, w.key, w.response)
      ]_vars

\* The cache holds an entry, and the GET handled last was refused a write
\* for the Cache-Control of its response.
C10_Witness ==
    /\ config.cacheEnabled
    /\ request.method = "GET"
    /\ response.status = 200
    /\ MarkedPrivate(response)
    /\ pending = {}
    /\ cache # <<>>
    /\ request.url \notin DOMAIN cache

\* The requests a generated asset answers.
AssetRequests ==
    UNION {IF handleAsset(req) # NoResponse THEN {req} ELSE {} : req \in Requests}

\* The requests the URL resolver finds no target for.
UnresolvedRequests ==
    UNION {IF getTargetURL(req.url, RootDomain).ok THEN {} ELSE {req} : req \in Requests}

\* The request handled by this step found an entry of the edge cache: no
\* generated asset answered it, the cache is enabled, it is a GET, the
\* cache held its URL when it arrived, and the read did not fail.
ServedFromCache ==
    /\ config.cacheEnabled
    /\ request'.method = "GET"
    /\ request'.url \in DOMAIN cache
    /\ thrown' # CacheUnavailable
    /\ request' \notin AssetRequests

\* C11 (cache hit shape): a GET for a URL whose cache write has completed is
\* answered from the cache without an upstream fetch, with X-Proxy-Cache:
\* HIT, Cache-Control: public, max-age={ttl}, a Vary that includes
\* Accept-Encoding and no Set-Cookie; and X-Proxy-Cache: HIT is on no
\* response that was not served from the cache.
C11_CacheHitShape ==
    [][(cache' = cache /\ pending \subseteq pending') =>
          /\ ServedFromCache =>
                /\ upstream' = <<>>
                /\ HGetOr(response'.headers, "x-proxy-cache", "") = "HIT"
                /\ HGetOr(response'.headers, "cache-control", "") =
                       "public, max-age=" \o CacheTtlText
                /\ Includes(HGetOr(response'.headers, "vary", ""), "Accept-Encoding")
                /\ ~HHas(response'.headers, "set-cookie")
          /\ ~ServedFromCache => HGetOr(response'.headers, "x-proxy-cache", "") # "HIT"
      ]_vars

\* C13 (error boundary): when a step of request handling throws, the client
\* is answered 500 with the JSON body {error: "Proxy Error", message,
\* timestamp} and Cache-Control: no-store, and the message is the fixed
\* generic text, which does not contain the message of the exception.
C13_ErrorBoundary ==
    thrown # "" =>
        /\ response.status = 500
        /\ HGetOr(response.headers, "content-type", "") = "application/json"
        /\ HGetOr(response.headers, "cache-control", "") = "no-store"
        /\ \E message \in {GenericMessage} :
               /\ response.body = ErrorJson("Proxy Error", message, Timestamp)
               /\ ~Includes(message, thrown)
        /\ ~Includes(response.body, thrown)

\* The place of a step in the order of the orchestrator.
PlaceOf(step) == CHOOSE p \in 1..Len(StepOrder) : StepOrder[p] = step

\* The step yields a response (or throws) for the request this step of the
\* system handles, the cache being as the request found it.
Yields(step) ==
    CASE step = "asset" -> request' \in AssetRequests
      [] step = "cache" -> ServedFromCache \/ thrown' = CacheUnavailable
      [] step = "resolver" -> request' \in UnresolvedRequests
      [] step = "mods" -> config.modEnabled
      [] step = "websocket" -> HGetOr(request'.headers, "upgrade", "") = "websocket"
      [] step = "fetch" -> origin'.failed
      [] OTHER -> FALSE

\* The cache steps are the ones a request may pass by: they run for a GET
\* with the cache enabled only.
RunsCacheSteps == config.cacheEnabled /\ request'.method = "GET"

\* C14 (orchestration order): for every request the steps run in the order
\* asset generator, cache read, URL resolver, traffic mods, WebSocket
\* branch, request rewriter, upstream fetch, response dispatcher,
\* X-Robots-Tag, cache write, none left out but the cache steps of a request
\* that is no GET; processing stops at the first step that yields a
\* response, and goes to the end when none does.
C14_OrchestrationOrder ==
    [][(cache' = cache /\ pending \subseteq pending' /\ request' # NoRequest) =>
          /\ steps' # <<>>
          /\ steps'[1] = "asset"
          /\ \A i \in 1..(Len(steps') - 1) :
                 /\ PlaceOf(steps'[i]) < PlaceOf(steps'[i + 1])
                 /\ \A p \in (PlaceOf(steps'[i]) + 1)..(PlaceOf(steps'[i + 1]) - 1) :
                        StepOrder[p] \in {"cache", "cacheWrite"} /\ ~RunsCacheSteps
                 /\ ~Yields(steps'[i])
          /\ ~Yields(steps'[Len(steps')]) =>
                 steps'[Len(steps')] = (IF RunsCacheSteps THEN "cacheWrite" ELSE "robots")
      ]_vars

\* A GET went through every step, from the asset generator to the cache write.
C14_Witness ==
    /\ steps = StepOrder
    /\ response.status = 200
    /\ pending # {}

\* C15 (X-Robots-Tag): every response the orchestrator returns carries
\* X-Robots-Tag: noindex, nofollow: proxied responses, cache hits, the
\* generated scripts, the root redirect, the 404 and the 502.
C15_RobotsTag ==
    (request # NoRequest /\ thrown = "" /\ response.status # 101) =>
        HGetOr(response.headers, "x-robots-tag", "") = "noindex, nofollow"

\* How handleRequest goes on for the request handled last when the cache
\* has no entry for it.
OnCacheMiss == resolveRequest(request, config, <<>>, FALSE)

\* C19 (cache failures are silent): when the read of the edge cache fails
\* the request proceeds as on a cache miss; when a write fails the response
\* chosen for the client is unaffected; neither failure produces an error
\* response.
C19_CacheFailuresSilent ==
    /\ [](cacheFault = "read" =>
             /\ thrown = ""
             /\ response.status # 500
             /\ IF OnCacheMiss.done THEN response = OnCacheMiss.out.response
                ELSE upstream # <<>>)
    /\ [][cacheFault' = "write" =>
             /\ response' = response
             /\ thrown' = thrown
             /\ response'.status # 500]_vars

\* The requests differ in their Cookie and Authorization headers only.
SameButCredentials(a, b) ==
    /\ a.method = b.method
    /\ a.url = b.url
    /\ HDeleteAll(a.headers, {"cookie", "authorization"}) =
           HDeleteAll(b.headers, {"cookie", "authorization"})

\* What the upstream of this execution answers to request `other`: an
\* upstream that answered by the client's credentials does so again, any
\* other answers the same.
AnswerTo(other) ==
    Bind(getTargetURL(other.url, RootDomain), LAMBDA targetURL :
        IF origin = PersonalReply(rewriteRequest(request, targetURL, RootDomain, FALSE))
        THEN PersonalReply(rewriteRequest(other, targetURL, RootDomain, FALSE))
        ELSE origin)

\* The cache writes handleRequest schedules for `req` and the upstream's reply.
WritesFor(req, reply) ==
    proxyRequest(req, getTargetURL(req.url, RootDomain), config, reply, FALSE).writes

\* C20 (session-safe cache): the entry a request populates the cache with
\* does not depend on its credentials: a request that differs from it in
\* the Cookie and Authorization headers only (and so possibly in the
\* upstream's reply) populates the cache with the same entry.
C20_SessionSafeCache ==
    (thrown = "" /\ steps # <<>> /\ steps[Len(steps)] = "cacheWrite") =>
        \A other \in Requests :
            SameButCredentials(request, other) =>
                WritesFor(other, AnswerTo(other)) = WritesFor(request, origin)

(***************************************************************************)
(* Properties of the rewriters (SpecFn)                                    *)
(***************************************************************************)

\* C3 (Set-Cookie hardening): every rewritten Set-Cookie value contains
\* Secure and SameSite=Lax and, unless the cookie name starts with __Host-,
\* exactly one Domain attribute, of value root_domain; a __Host- cookie has
\* no Domain attribute.
C3_SetCookieHardening ==
    fnSite = "cookie" => Hardened(fnOut[1])

\* x-real-ip, via, x-forwarded-*, cf-*, x-cf-*
IsLeakName(name) ==
    \/ name \in {"x-real-ip", "via"}
    \/ StartsWith(name, "x-forwarded-")
    \/ StartsWith(name, "cf-")
    \/ StartsWith(name, "x-cf-")

\* C5 (leak-header scrubbing): the upstream request the request rewriter
\* produces has no header named x-real-ip, via, x-forwarded-*, cf-* or
\* x-cf-*, whatever headers the incoming request had.
C5_LeakHeadersScrubbed ==
    fnSite = "request" => \A name \in DOMAIN fnOut[1] : ~IsLeakName(name)

\* The hostname a URL of a response resolves to against the base.
ResolvedHost(u) == ParseURL(u, BaseURL).hostname

\* C6 (idempotence of proxification): at every rewrite site a URL whose
\* resolved hostname already ends with "." root_domain is returned
\* unchanged, the mapping applied to its own output changes nothing, and no
\* emitted URL has root_domain appended twice.
C6_ProxifyIdempotent ==
    fnSite \in RewriteSites =>
        /\ EndsWith(ResolvedHost(fnIn), "." \o RootDomain) => fnOut[1] = fnIn
        /\ Len(fnOut) = 2 => fnOut[2] = fnOut[1]
        /\ \A i \in 1..Len(fnOut) :
               ~EndsWith(ResolvedHost(fnOut[i]), "." \o RootDomain \o "." \o RootDomain)

\* C12 (status shortcut): for an upstream response of status 204, 304 or
\* 3xx, of whatever Content-Type, no content handler runs: the body is
\* forwarded as it came, with the status, and the headers are the sanitized
\* ones, which no handler has touched.
C12_StatusShortcut ==
    (fnSite = "response" /\ fnIn.status \in ({204, 304} \cup (300..399))) =>
        /\ fnOut[1].body = fnIn.body
        /\ fnOut[1].status = fnIn.status
        /\ fnOut[1].headers = sanitizeHeaders(fnIn.headers)

\* A 204 declared as text/html went through the dispatcher, and a handler
\* would have rewritten its body.
C12_Witness ==
    /\ fnSite = "response"
    /\ fnIn.status = 204
    /\ ContentHandler(HGetOr(fnIn.headers, "content-type", "")) = "html"
    /\ HandledBody("html", fnIn.body) # fnIn.body
    /\ fnOut[1].body = fnIn.body

\* C16 (cycle safety): the walk of a JSON value comes to its end and
\* returns, on graphs with back-edges and shared objects too, and it enters
\* the loop over an object's keys at most once per top-level call.
C16_CycleSafety ==
    /\ <>(walkStatus = "returned")
    /\ [](\A o \in DOMAIN visits : visits[o] <= 1)

(***************************************************************************)
(* Properties of the WebSocket tunnel (SpecWs)                             *)
(***************************************************************************)

BothOpen == wsServer.state = "open" /\ wsTarget.state = "open"

BothClosed == wsServer.state = "closed" /\ wsTarget.state = "closed"

\* The session is over: the handshake failed, or both endpoints are closed.
SessionClosed == wsPhase = "Closed" \/ (wsPhase = "Established" /\ BothClosed)

\* The close event (code, reason) of endpoint `on` is the next the event
\* loop hands over, in a tunnel with both endpoints open.
CloseArrives(on, code, reason) ==
    /\ wsPhase = "Established"
    /\ BothOpen
    /\ wsEvents # <<>>
    /\ Head(wsEvents) = [on |-> on, type |-> "close", code |-> code, reason |-> reason,
                         data |-> ""]

\* The endpoint is closed with the code and reason given, 1000 and "Normal
\* Closure" standing in for a code (1005: no status received) or a reason
\* the closing side did not supply.
ClosedWith(socket, code, reason) ==
    /\ socket.state = "closed"
    /\ socket.code = code \/ (code = 1005 /\ socket.code = 1000)
    /\ socket.reason = reason \/ (reason = "" /\ socket.reason = "Normal Closure")

\* C7 (close propagation): in an established tunnel, when an endpoint closes
\* with (code, reason), the other endpoint is eventually closed with the same
\* code and reason, 1000 "Normal Closure" standing in where the closing side
\* supplied none; and a session that is Closed stays Closed.
C7_ClosePropagation ==
    /\ \A on \in {"server", "target"}, code \in CloseCodes, reason \in {"", "bye"} :
           CloseArrives(on, code, reason)
               ~> ClosedWith(IF on = "server" THEN wsTarget ELSE wsServer, code, reason)
    /\ [][SessionClosed => SessionClosed']_vars

HandshakeFailed == wsLog.handshake \in {"non101", "nosocket", "fetchfail"}

NothingForwarded == wsLog.toTarget = <<>> /\ wsLog.toClient = <<>>

\* C8 as stated (upgrade failure): when the handshake yields no 101 with a
\* usable socket (another status, a 101 without a socket, a failed fetch),
\* the client-facing socket is closed with 1002 and the session terminates
\* without ever forwarding a message.
C8_UpgradeFailureCloses1002 ==
    HandshakeFailed =>
        /\ wsServer.state = "closed" /\ wsServer.code = 1002
        /\ wsPhase = "Closed"
        /\ NothingForwarded

\* C8 amended: a status other than 101 closes the client-facing socket with
\* 1002 "Upstream did not upgrade"; a failed fetch and a 101 without a
\* usable socket close it with 1011 "Failed to connect to upstream"; in each
\* case the session terminates, no upstream socket is kept, and no message
\* is ever forwarded.
C8_UpgradeFailure ==
    /\ wsLog.handshake = "non101" =>
           wsServer = [state |-> "closed", code |-> 1002,
                       reason |-> "Upstream did not upgrade"]
    /\ wsLog.handshake \in {"nosocket", "fetchfail"} =>
           wsServer = [state |-> "closed", code |-> 1011,
                       reason |-> "Failed to connect to upstream"]
    /\ HandshakeFailed => wsPhase = "Closed" /\ wsTarget = NoSocket /\ NothingForwarded

\* The upstream answered 101 without a socket, the client then sent a
\* message and closed, and the event loop has handed both over.
C8_Witness ==
    /\ wsLog.handshake = "nosocket"
    /\ wsServer.code = 1011
    /\ wsPeers["server"].sent > 0
    /\ wsPeers["server"].gone
    /\ wsEvents = <<>>

\* C9 (send error): in an established tunnel, once forwarding a message has
\* failed, the session is closed with 1011 and reaches Closed, neither
\* endpoint left open.
C9_SendErrorCloses ==
    (wsLog.failed # "" /\ wsLog.closed = NoEvent)
        ~> (wsServer.state = "closed" /\ wsServer.code = 1011 /\ wsTarget.state = "closed")


\* C17 (mod domain scoping): a mod with domain_pattern "*.R" runs for a host
\* h exactly when h = R or h ends with "." R, so "*.ex.com" runs for ex.com
\* and a.ex.com and not for other.com or notex.com; "*" runs for every
\* host; any other pattern runs for the identical host only.
C17_ModDomainScoping ==
    fnSite = "mod" =>
        /\ fnOut[1] =
              (CASE fnIn.domainPattern = "*" -> TRUE
                 [] fnIn.domainPattern # "*" /\ SubSeq(fnIn.domainPattern, 1, 2) = "*." ->
                        \/ "*." \o fnIn.host = fnIn.domainPattern
                        \/ \E n \in 1..Len(fnIn.host) :
                               "*" \o SubSeq(fnIn.host, n, Len(fnIn.host)) = fnIn.domainPattern
                 [] OTHER -> fnIn.host = fnIn.domainPattern)
        /\ fnIn.domainPattern = "*.ex.com" =>
              fnOut[1] = (fnIn.host \in {"ex.com", "a.ex.com", "b.a.ex.com"})

\* A mod scoped to "*.ex.com" was asked for notex.com and does not run.
C17_Witness ==
    /\ fnSite = "mod"
    /\ fnIn.domainPattern = "*.ex.com"
    /\ fnIn.host = "notex.com"
    /\ fnOut[1] = FALSE

\* C18 (no-op on already-proxied URLs): for an attribute the HTML handlers
\* rewrite (a generic URL attribute, srcset, meta content) whose URLs all
\* resolve to a hostname under "." root_domain, the value after the handler
\* is character for character the value before it.
C18_ProxiedAttributeUntouched ==
    (fnSite = "html" /\ \A u \in fnIn.urls : EndsWith(ResolvedHost(u), "." \o RootDomain)) =>
        fnOut[1] = fnIn.value

\* The messages are messages of the peer of endpoint `on`, each one once,
\* in the order the peer sent them.
InSendingOrder(messages, on) ==
    /\ \A j \in 1..Len(messages) : messages[j][1] = on
    /\ \A j, k \in 1..Len(messages) : j < k => messages[j][2] < messages[k][2]

\* C22 (per-direction ordering): in an established tunnel the messages
\* delivered to the upstream are the client's, in the order the client sent
\* them, and the messages delivered to the client are the upstream's, in
\* the order the upstream sent them, none twice and none out of order.
C22_DirectionOrder ==
    /\ InSendingOrder(wsLog.toTarget, "server")
    /\ InSendingOrder(wsLog.toClient, "target")

\* Two messages went each way through an established tunnel.
C22_Witness ==
    /\ wsLog.handshake = "ok"
    /\ Len(wsLog.toTarget) = 2
    /\ Len(wsLog.toClient) = 2

\* The tunnel is established and at rest: both endpoints are open, no event
\* waits for a listener, and no send has failed.
TunnelAtRest ==
    /\ wsPhase = "Established"
    /\ BothOpen
    /\ wsEvents = <<>>
    /\ wsLog.failed = ""

\* C30 (no message loss while upgrading): the client has its 101 before the
\* upstream handshake completes and the listeners are attached only after
\* it; every message and close the client emits in between is still
\* forwarded to the upstream (or the session ends Closed): in a tunnel at
\* rest every message the client sent has reached the upstream, and the
\* close listener has run if the client has gone.
C30_NoLossWhileUpgrading ==
    TunnelAtRest =>
        /\ \A i \in 1..wsPeers["server"].sent :
               \E j \in 1..Len(wsLog.toTarget) : wsLog.toTarget[j] = DataOf("server", i)
        /\ wsPeers["server"].gone => wsLog.closed # NoEvent

(***************************************************************************)
(* Properties of the text-rewriter mods (SpecText)                         *)
(***************************************************************************)

\* C21 (unsafe-ancestor skipping): a text node with an ancestor element in
\* {style, svg, noscript, textarea, pre, code} is never modified by a
\* text-rewriter mod, the text inside a nested child of such an element and
\* the text after a nested child's end tag included.
C21_UnsafeAncestorSkipped ==
    (\E i \in 1..Len(chunk.ancestors) : chunk.ancestors[i] \in UNSAFE_TAGS) =>
        chunk.out = chunk.text

\* C23 (JSON parse-failure fallback): when the body of a JSON response fails
\* to parse, handleJson returns the original body bytes unchanged, with the
\* headers it was given and the same status.
C23_JsonFallback ==
    (fnSite = "handleJson" /\ ~JsonParse(fnIn.body).ok) =>
        /\ fnOut[1].thrown = ""
        /\ fnOut[1].body = fnIn.body
        /\ fnOut[1].headers = fnIn.headers
        /\ fnOut[1].status = fnIn.status

\* The body handlers in the order of their priority, and the patterns of each.
HandlerOrder == <<"html", "javascript", "css", "json", "xml", "pdf">>

Patterns(handler) ==
    CASE handler = "html" -> {"text/html"}
      [] handler = "javascript" -> {"javascript", "application/x-javascript"}
      [] handler = "css" -> {"text/css"}
      [] handler = "json" -> {"application/json", "application/manifest+json"}
      [] handler = "xml" -> {"xml"}
      [] handler = "pdf" -> {"application/pdf"}

Matching(contentType) ==
    {i \in 1..Len(HandlerOrder) :
        \E pattern \in Patterns(HandlerOrder[i]) : Includes(contentType, pattern)}

\* The first handler in the order whose pattern the Content-Type contains.
EarliestHandler(contentType) ==
    IF Matching(contentType) = {} THEN "passthrough"
    ELSE HandlerOrder[CHOOSE i \in Matching(contentType) :
                          \A j \in Matching(contentType) : i <= j]

\* C24 (dispatch priority): a non-shortcut response is handled by exactly
\* one body handler, the first in the order HTML, JS, CSS, JSON, XML, PDF,
\* passthrough whose pattern its Content-Type contains; a missing
\* Content-Type is passthrough.
C24_DispatchPriority ==
    (fnSite = "response" /\ ~IsShortcutStatus(fnIn.status)) =>
        Bind(EarliestHandler(HGetOr(fnIn.headers, "content-type", "")), LAMBDA handler :
            /\ fnOut[1].body = HandledBody(handler, fnIn.body)
            /\ HHas(fnOut[1].headers, "content-disposition") <=> handler = "pdf"
            /\ HHas(fnOut[1].headers, "content-length") <=> handler \in {"javascript", "css"})

C24_Witness ==
    /\ fnSite = "response"
    /\ fnIn.status = 200
    /\ HGetOr(fnIn.headers, "content-type", "") = "application/json+xml"
    /\ fnOut[1].body = HandledBody("json", fnIn.body)

\* C25 (CSP relaxation fixed point): for every Content-Security-Policy value
\* h, rewriteCSP(rewriteCSP(h)) = rewriteCSP(h).
C25_CspFixedPoint ==
    fnSite = "csp" => fnOut[2] = fnOut[1]

\* The URL target is the one the proxy URL proxied stands for: the host
\* without the root domain, the same path and query.
StandsFor(proxied, target, rootDomain) ==
    /\ target.ok
    /\ target.hostname \o "." \o rootDomain = proxied.hostname
    /\ target.pathname = proxied.pathname
    /\ target.search = proxied.search

\* The host of a URL is the root domain or a subdomain of it.
UnderRoot(u, rootDomain) ==
    u.ok /\ (u.hostname = rootDomain \/ EndsWith(u.hostname, "." \o rootDomain))

\* C26 (identity rewrite): for a Referer or Origin of the incoming request
\* that parses with a hostname ending in the root domain, the upstream
\* request carries the resolved target URL in its place; one that does not
\* parse is absent from the upstream request; no upstream request carries a
\* Referer or Origin whose host is the root domain or a subdomain of it.
C26_IdentityRewrite ==
    fnSite = "identity" =>
        \A name \in DOMAIN fnIn :
            Bind(ParseURL(fnIn[name], NoBase), LAMBDA u :
                /\ ~u.ok => ~HHas(fnOut[1], name)
                /\ (u.ok /\ EndsWith(u.hostname, RootDomain)) =>
                       /\ HHas(fnOut[1], name)
                       /\ StandsFor(u, ParseURL(fnOut[1][name], NoBase), RootDomain)
                /\ HHas(fnOut[1], name) =>
                       ~UnderRoot(ParseURL(fnOut[1][name], NoBase), RootDomain))

\* The request handled last is for the root domain and has a query string,
\* and the lookup in the edge cache did not fail for it.
RootQuery ==
    /\ request # NoRequest
    /\ thrown # CacheUnavailable
    /\ ParseURL(request.url, NoBase).hostname = RootDomain
    /\ SliceFrom(ParseURL(request.url, NoBase).search, 1) # ""

\* The answer to a request no target was resolved for.
IsLanding(resp) ==
    resp.status = 404 /\ resp.body = "Divortio Proxy: Invalid target. Try /?example.com"

\* C27 (root redirect fallthrough): a request to the root domain with a
\* non-empty query string is answered 302 to a proxy URL under the root
\* domain when the query decodes to a valid target, and with the landing
\* response for every input that cannot be decoded or parsed, malformed
\* percent-encoding included; no such input raises an error or yields a 5xx.
C27_RootRedirectFallthrough ==
    RootQuery =>
        /\ thrown = ""
        /\ response.status < 500
        /\ \/ /\ response.status = 302
              /\ UnderRoot(ParseURL(HGetOr(response.headers, "location", ""), NoBase),
                           RootDomain)
           \/ IsLanding(response)

\* The step `step` of handleRequest ran for the request handled last.
Ran(step) == \E i \in 1..Len(steps) : steps[i] = step

\* C28 (mod binding): enabling a registered mod results in its handler being
\* instantiated and bound where its domain pattern matches the target host,
\* and the request still completes with the proxied response: when the mod
\* step runs with the mod enabled, nothing is thrown and the client gets the
\* upstream's answer (or the 101 of the tunnel, or the 502 of a failed fetch).
C28_ModBinding ==
    (request # NoRequest /\ config.modEnabled /\ Ran("mods")) =>
        /\ thrown = ""
        /\ \/ response.status = 101
           \/ origin.failed /\ response.status = 502
           \/ ~origin.failed /\ response.status = origin.status

\* C29 (upstream fetch count): a request causes at most one upstream fetch,
\* and none when the asset generator, a cache hit, the 404 for an unresolved
\* target or the root redirect answers it; a failed fetch is not tried
\* again, and a WebSocket upgrade issues exactly one upstream handshake.
C29_UpstreamFetchCount ==
    [][(cache' = cache /\ pending \subseteq pending') =>
          /\ Len(upstream') <= 1
          /\ (request' \in AssetRequests \/ request' \in UnresolvedRequests \/ ServedFromCache)
                 => upstream' = <<>>
          /\ origin'.failed => Len(upstream') = 1
          /\ response'.status = 101 =>
                 (Len(upstream') = 1 /\ upstream'[1].kind = "ws")
      ]_vars

\* The upstream fetch of a request was rejected and the client has the 502.
C29_Witness ==
    /\ origin.failed
    /\ response.status = 502
    /\ Len(upstream) = 1

====
